---- MODULE Spec2Model ----
(***************************************************************************)
(* A model of the ray tracer kernel: f64 arithmetic where it is unrounded, *)
(* tuples and matrices (math.rs), rays, spheres and intersection lists     *)
(* (geometry.rs), and the canvas with its PPM encoding (graphics.rs,       *)
(* image.rs).                                                              *)
(***************************************************************************)
EXTENDS Integers, Sequences, FiniteSets, TLC

VARIABLES
    pc,         \* position of the caller: "idle", "built", "hit", "normal", "panicked"
    transform,  \* Sphere.transform of the sphere with identity 1
    xs,         \* the live Intersections value (its Vec), <<>> when none is live
    arg,        \* the last constructor or sphere call and its argument
    hitres,     \* Option returned by the last hit(): <<>> is None, <<i>> is Some(i)
    normal,     \* Option of the Vector3f returned by the last normal_at
    cpc,        \* the canvas: "none", "new", "written", "panicked"
    canvas,     \* Canvas.px: a sequence of rows, each a sequence of colours
    made,       \* <<w, h>> given to the Canvas::new that made the canvas
    pxres,      \* <<x, y, colour>> of the last px(x, y), <<>> when none is held
    ppm,        \* Option of the String returned by canvas_to_ppm, as characters
    cop,        \* the last canvas call: <<name>>, or <<name, x, y>> for px and write_px
    lastw,      \* history: per pixel, the colour last written to it, black while never written
    mpc,        \* the caller of the math kernel: "ready", "held", "panicked"
    mop,        \* the last math operation and its operands
    held        \* the value the last math operation returned

vars == <<pc, transform, xs, arg, hitres, normal, cpc, canvas, made, pxres, ppm,
          cop, lastw, mpc, mop, held>>
geomVars == <<pc, transform, xs, arg, hitres, normal>>
canvasVars == <<cpc, canvas, made, pxres, ppm, cop, lastw>>
mathVars == <<mpc, mop, held>>

---------------------------------------------------------------------------
(* f64.  A value is <<n, d>>: for d > 0 the f64 nearest to the rational     *)
(* n/d in lowest terms (the rational itself when d is a power of two),      *)
(* +infinity <<1,0>>, -infinity <<-1,0>>, NaN <<0,0>>.  Two further scales  *)
(* hold the values a 32-bit quotient cannot: <<k, -1>> is k * 2^-53 (half   *)
(* of f64::EPSILON) and <<k, -2>> is k * 2^54, k # 0.  An operator below    *)
(* gives the f64 result on the operands its ...Exact predicate accepts: the *)
(* operands for which the rounded result is again the f64 nearest to the    *)
(* rational result.  The callers take their operands from those; the sign   *)
(* of zero is not modelled.                                                 *)

Abs(n) == IF n < 0 THEN -n ELSE n

Sign(n) == IF n < 0 THEN -1 ELSE IF n > 0 THEN 1 ELSE 0

RECURSIVE GCD(_, _)
GCD(a, b) == IF b = 0 THEN a ELSE GCD(b, a % b)

Norm(n, d) ==
    IF d = 0 THEN <<Sign(n), 0>>
    ELSE LET g == GCD(Abs(n), Abs(d))
             s == Sign(d)
         IN  <<(s * n) \div g, (s * d) \div g>>

F(n) == <<n, 1>>
NaN == <<0, 0>>
IsNaN(a) == a = NaN
IsFinite(a) == a[2] # 0
IsRational(a) == a[2] > 0
IsTiny(a) == a[2] = -1
IsHuge(a) == a[2] = -2

\* k units of the scale tag: k * 2^-53 (tag -1) or k * 2^54 (tag -2)
Scaled(k, tag) == IF k = 0 THEN F(0) ELSE <<k, tag>>
Tiny(k) == Scaled(k, -1)
Huge(k) == Scaled(k, -2)

FNeg(a) == <<-a[1], a[2]>>

\* the rationals that are f64 values themselves, and the powers of two
IsPow2(n) == \E k \in 0..30 : n = 2^k

Dyadic(a) == a[2] > 0 /\ IsPow2(a[2])

IsPowerOfTwo(a) ==
    /\ a[2] > 0
    /\ IF a[2] = 1 THEN IsPow2(Abs(a[1])) ELSE Abs(a[1]) = 1 /\ IsPow2(a[2])

ILog2(n) == CHOOSE k \in 0..30 : 2^k <= n /\ (IF k = 30 THEN TRUE ELSE n < 2^(k + 1))

CeilLog2(n) == CHOOSE k \in 0..30 : 2^k >= n /\ (IF k = 0 THEN TRUE ELSE 2^(k - 1) < n)

\* the binary exponent e of a finite non-zero a: 2^e <= |a| < 2^(e+1)
Exponent(a) ==
    LET n == Abs(a[1])
        d == a[2]
    IN  IF n >= d THEN ILog2(n \div d) ELSE -CeilLog2((d + n - 1) \div n)

RECURSIVE Pow2Mod(_, _)
Pow2Mod(k, m) ==
    IF k = 0 THEN 1 % m
    ELSE LET h == Pow2Mod(k \div 2, m)
         IN  (h * h * (IF k % 2 = 1 THEN 2 ELSE 1)) % m

\* the 53-bit significand of |a| = n/d with the exponent e is
\* floor(n * 2^(52-e) / d), rounded to nearest; this is n * 2^(52-e) modulo
\* 2d, which gives the remainder of that division (modulo d) and the parity
\* of its quotient (whether it is d or more)
MantissaMod(a, e) ==
    ((Abs(a[1]) % (2 * a[2])) * Pow2Mod(52 - e, 2 * a[2])) % (2 * a[2])

\* the f64 nearest to |a| is |a| - (err / d) * 2^(e-52), from the mantissa
\* mm of a modulo 2d
ErrorOfMantissa(a, mm) ==
    IF a[1] = 0 \/ Dyadic(a) THEN 0
    ELSE IF 2 * (mm % a[2]) > a[2] THEN (mm % a[2]) - a[2]
    ELSE mm % a[2]

RoundingError(a, e) == ErrorOfMantissa(a, MantissaMod(a, e))

\* s > 0 is the rational result, with the mantissa ms modulo 2d, and the
\* exact result of the f64 operands is s + (Y/L + theta) * 2^(e-52), theta
\* of negligible size and the sign given: does it round (to nearest, ties to
\* even) to the f64 nearest to s
RoundsTo(Y, L, s, ms, theta) ==
    IF Dyadic(s)
    THEN IF Y = 0 THEN TRUE
         ELSE IF (IF Y < 0 /\ IsPowerOfTwo(s) THEN 4 ELSE 2) * Abs(Y) < L THEN TRUE
         ELSE IF (IF Y < 0 /\ IsPowerOfTwo(s) THEN 4 ELSE 2) * Abs(Y) > L THEN FALSE
         ELSE IF theta = 0 THEN TRUE
         ELSE IF Y > 0 THEN theta < 0 ELSE theta > 0
    ELSE IF 2 * (ms % s[2]) > s[2]
    THEN \* the f64 nearest to s is above s
         IF 2 * Abs(Y - L) < L THEN TRUE
         ELSE IF 2 * Abs(Y - L) > L THEN FALSE
         ELSE IF theta # 0 THEN (IF Y > L THEN theta < 0 ELSE theta > 0)
         ELSE ms >= s[2]
    ELSE IF 2 * Abs(Y) < L THEN TRUE
         ELSE IF 2 * Abs(Y) > L THEN FALSE
         ELSE IF theta # 0 THEN (IF Y > 0 THEN theta < 0 ELSE theta > 0)
         ELSE ms < s[2]

\* the operands the two predicates below decide within 32-bit integers
SmallOperand(a, ea, e) ==
    IF Dyadic(a) THEN a[2] <= 1024
    ELSE a[2] <= 128 /\ Abs(ea - e) <= 7

LCM(a, b) == (a * b) \div GCD(a, b)

Max(a, b) == IF a > b THEN a ELSE b

\* the rounding error of the operand x in units of 2^(es-52) / L
SumTerm(x, ex, lc, k) ==
    IF Dyadic(x) THEN 0
    ELSE Sign(x[1]) * RoundingError(x, ex) * (lc \div x[2]) * 2^k

SumRoundsAt(x, y, s, ex, ey, es, lc, m) ==
    RoundsTo((IF Dyadic(s) THEN 0
              ELSE (MantissaMod(s, es) % s[2]) * ((lc * 2^m) \div s[2]))
                - (SumTerm(x, ex, lc, m + ex - es) + SumTerm(y, ey, lc, m + ey - es)),
             lc * 2^m, s, MantissaMod(s, es), 0)

SumRoundsWith(x, y, s, ex, ey, es) ==
    IF SmallOperand(x, ex, es) /\ SmallOperand(y, ey, es) /\ s[2] <= 16383
    THEN SumRoundsAt(x, y, s, ex, ey, es, LCM(x[2], y[2]),
                     Max(Max(0, IF Dyadic(x) THEN 0 ELSE es - ex),
                         IF Dyadic(y) THEN 0 ELSE es - ey))
    ELSE FALSE

\* the sum s0 of a and b, taken positive
SumRounds(a, b, s0) ==
    IF s0[1] = 0 THEN TRUE
    ELSE IF s0[1] < 0
         THEN SumRoundsWith(FNeg(a), FNeg(b), FNeg(s0),
                            Exponent(a), Exponent(b), Exponent(s0))
    ELSE SumRoundsWith(a, b, s0, Exponent(a), Exponent(b), Exponent(s0))

\* the f64 sum of the f64 nearest to a and to b is the f64 nearest to a + b
RationalSumExact(a, b) ==
    IF a[1] = 0 \/ b[1] = 0 THEN TRUE
    ELSE IF Dyadic(a) /\ Dyadic(b) THEN TRUE
    ELSE SumRounds(a, b, Norm(a[1] * b[2] + b[1] * a[2], a[2] * b[2]))

ProductRoundsAt(x, y, s, ex, ey, es, rx, ry, m) ==
    RoundsTo((IF Dyadic(s) THEN 0
              ELSE (MantissaMod(s, es) % s[2]) * ((x[2] * y[2] * 2^m) \div s[2]))
                - (x[1] * ry * 2^(m - es + ey) + y[1] * rx * 2^(m - es + ex)),
             x[2] * y[2] * 2^m, s, MantissaMod(s, es), Sign(rx) * Sign(ry))

ProductRoundsWith(x, y, s, ex, ey, es) ==
    ProductRoundsAt(x, y, s, ex, ey, es, RoundingError(x, ex), RoundingError(y, ey),
                    Max(Max(0, es - ey), es - ex))

\* the product of x > 0 and y > 0
ProductRounds(x, y, ex, ey) ==
    IF x[2] <= 128 /\ y[2] <= 128 /\ Abs(ex) <= 8 /\ Abs(ey) <= 8
    THEN ProductRoundsWith(x, y, Norm(x[1] * y[1], x[2] * y[2]), ex, ey,
                           Exponent(Norm(x[1] * y[1], x[2] * y[2])))
    ELSE FALSE

\* the f64 product of the f64 nearest to a and to b is the f64 nearest to a * b
RationalProductExact(a, b) ==
    IF a[1] = 0 \/ b[1] = 0 THEN TRUE
    ELSE IF Dyadic(a) /\ Dyadic(b) THEN TRUE
    ELSE IF IsPowerOfTwo(a) \/ IsPowerOfTwo(b) THEN TRUE
    ELSE ProductRounds(<<Abs(a[1]), a[2]>>, <<Abs(b[1]), b[2]>>,
                       Exponent(a), Exponent(b))

\* a + b.  Across scales the sum rounds to the operand of the larger scale:
\* k * 2^54 + x is k * 2^54 for |x| <= 1, and x + k * 2^-53 is x for
\* |x| >= 2 and |k| <= 1 (round to nearest, ties to even)
FAdd(a, b) ==
    IF IsNaN(a) \/ IsNaN(b) THEN NaN
    ELSE IF a[2] = 0 /\ b[2] = 0 THEN (IF a = b THEN a ELSE NaN)
    ELSE IF a[2] = 0 THEN a
    ELSE IF b[2] = 0 THEN b
    ELSE IF a[2] > 0 /\ b[2] > 0 THEN Norm(a[1] * b[2] + b[1] * a[2], a[2] * b[2])
    ELSE IF a[2] = b[2] THEN Scaled(a[1] + b[1], a[2])
    ELSE IF a[1] = 0 THEN b
    ELSE IF b[1] = 0 THEN a
    ELSE IF IsHuge(a) THEN a
    ELSE IF IsHuge(b) THEN b
    ELSE IF IsTiny(a) THEN b
    ELSE a

\* the sums for which FAdd is the f64 sum
AddExact(a, b) ==
    IF a[2] > 0 /\ b[2] > 0 THEN RationalSumExact(a, b)
    ELSE IF a[2] >= 0 /\ b[2] >= 0 THEN TRUE
    ELSE IF a[2] = b[2] \/ a[2] = 0 \/ b[2] = 0 \/ a[1] = 0 \/ b[1] = 0 THEN TRUE
    ELSE IF a[2] < 0 /\ b[2] < 0 THEN TRUE
    ELSE LET s == IF a[2] < 0 THEN a ELSE b
             x == IF a[2] < 0 THEN b ELSE a
         IN  IF IsHuge(s) THEN Abs(x[1]) <= x[2]
             ELSE Abs(s[1]) <= 1 /\ Abs(x[1]) >= 2 * x[2]

FSub(a, b) == FAdd(a, FNeg(b))

\* a * b.  A scaled value times a rational stays on its scale; 2^-53 * 2^54
\* is 2; the products that leave both scales are not modelled (NaN) and are
\* kept out by MulExact
FMul(a, b) ==
    IF a[2] >= 0 /\ b[2] >= 0 THEN Norm(a[1] * b[1], a[2] * b[2])
    ELSE IF a[2] = 0 \/ b[2] = 0 THEN <<Sign(a[1]) * Sign(b[1]), 0>>
    ELSE IF a[2] > 0 THEN (IF a[1] = 0 THEN F(0) ELSE Scaled((b[1] * a[1]) \div a[2], b[2]))
    ELSE IF b[2] > 0 THEN (IF b[1] = 0 THEN F(0) ELSE Scaled((a[1] * b[1]) \div b[2], a[2]))
    ELSE IF a[2] # b[2] THEN F(2 * a[1] * b[1])
    ELSE NaN

\* the products for which FMul is the f64 product
MulExact(a, b) ==
    IF a[2] = 0 \/ b[2] = 0 THEN TRUE
    ELSE IF a[2] < 0 /\ b[2] < 0 THEN a[2] # b[2]
    ELSE IF a[1] = 0 \/ b[1] = 0 THEN TRUE
    ELSE IF a[2] < 0 /\ (a[1] * b[1]) % b[2] # 0 THEN FALSE
    ELSE IF b[2] < 0 /\ (b[1] * a[1]) % a[2] # 0 THEN FALSE
    ELSE RationalProductExact(IF a[2] < 0 THEN F(a[1]) ELSE a,
                              IF b[2] < 0 THEN F(b[1]) ELSE b)

\* a / b.  A scaled value over a rational is its product with the
\* reciprocal; a quotient by a scaled value is modelled only for 0, the
\* infinities and NaN above it
FDiv(a, b) ==
    IF a[2] >= 0 /\ b[2] >= 0
    THEN LET s == IF b[1] < 0 THEN -1 ELSE 1
         IN  Norm(s * a[1] * b[2], s * a[2] * b[1])
    ELSE IF b[2] < 0
         THEN (IF a[2] = 0 THEN <<Sign(a[1]) * Sign(b[1]), 0>>
               ELSE IF a[1] = 0 THEN F(0) ELSE NaN)
    ELSE IF b[2] = 0 THEN (IF IsNaN(b) THEN NaN ELSE F(0))
    ELSE IF b[1] = 0 THEN <<Sign(a[1]), 0>>
    ELSE FMul(a, <<Sign(b[1]) * b[2], Abs(b[1])>>)

\* the quotients for which FDiv is the f64 quotient: of two rationals, the
\* one rounding of the quotient of two f64 values, a division by a power of
\* two, and x / x.  The model has one zero: a quotient by zero is the f64
\* quotient for the dividends 0 and NaN only, where it is NaN for 0.0 and
\* for -0.0; for the others x / 0.0 and x / -0.0 differ in sign
DivExact(a, b) ==
    IF b = F(0) THEN a[1] = 0
    ELSE IF a[2] > 0 /\ b[2] > 0
    THEN IF a[1] = 0 \/ b[1] = 0 THEN TRUE
         ELSE IF Dyadic(a) /\ Dyadic(b) THEN TRUE
         ELSE IF IsPowerOfTwo(b) THEN TRUE
         ELSE Abs(a[1]) = Abs(b[1]) /\ a[2] = b[2]
    ELSE IF a[2] >= 0 /\ b[2] >= 0 THEN TRUE
    ELSE IF b[2] < 0 THEN a[2] = 0 \/ a[1] = 0
    ELSE IF b[2] = 0 \/ b[1] = 0 THEN TRUE
    ELSE Dyadic(b) /\ (a[1] * b[2]) % Abs(b[1]) = 0

\* floor(n * 2^s / d) and its remainder, from the quotient q and remainder
\* r < d of n by d, one binary digit at a step; <<-1, 0>> when the quotient
\* leaves the 32-bit integers
RECURSIVE ShiftDiv(_, _, _, _)
ShiftDiv(q, r, d, s) ==
    IF s = 0 THEN <<q, r>>
    ELSE IF q >= 2^30 THEN <<-1, 0>>
    ELSE IF r >= d - r THEN ShiftDiv(2 * q + 1, r - (d - r), d, s - 1)
    ELSE ShiftDiv(2 * q, r + r, d, s - 1)

BitLength(k) == CHOOSE l \in 1..31 : k \div 2^(l - 1) = 1

\* floor(d / 2^e)
HalfGap(d, e) == IF e >= 31 THEN 0 ELSE d \div 2^e

\* the sign of x - k * 2^-53 for the f64 x nearest to n / d, with n, d and k
\* positive.  k * 2^-53 is an f64 value of even mantissa, 2^(l - 107) below
\* the midpoint to its successor for l the bit length of k, and as far
\* above the midpoint to its predecessor (half as far when k is a power of
\* two); n / d rounds to it between the two midpoints, the midpoints included
CompareQuotient(qr, d, k, l) ==
    IF qr[1] = -1 \/ qr[1] > k THEN 1
    ELSE IF qr[1] = k THEN (IF qr[2] > HalfGap(d, 54 - l) THEN 1 ELSE 0)
    ELSE IF qr[1] < k - 1 THEN -1
    ELSE IF d - qr[2] > HalfGap(d, IF k = 2^(l - 1) THEN 55 - l ELSE 54 - l) THEN -1
    ELSE 0

CompareMagnitude(n, d, k) ==
    CompareQuotient(ShiftDiv(n \div d, n % d, d, 53), d, k, BitLength(k))

\* the sign of a - k * 2^-53 for a rational a
CompareTiny(a, k) ==
    IF Sign(a[1]) # Sign(k) THEN (IF Sign(a[1]) < Sign(k) THEN -1 ELSE 1)
    ELSE IF k = 0 THEN 0
    ELSE Sign(k) * CompareMagnitude(Abs(a[1]), a[2], Abs(k))

\* one operand is a rational and the other on the 2^-53 scale
Mixed(a, b) == (IsRational(a) /\ IsTiny(b)) \/ (IsTiny(a) /\ IsRational(b))

FLt(a, b) ==
    /\ ~IsNaN(a) /\ ~IsNaN(b)
    /\ IF a[2] = 0 /\ b[2] = 0 THEN a[1] < b[1]
       ELSE IF Mixed(a, b)
            THEN IF IsTiny(b) THEN CompareTiny(a, b[1]) = -1
                 ELSE CompareTiny(b, a[1]) = 1
       ELSE IF a[2] < 0 \/ b[2] < 0 THEN FSub(b, a)[1] > 0
       ELSE a[1] * b[2] < b[1] * a[2]

FGe(a, b) == ~IsNaN(a) /\ ~IsNaN(b) /\ ~FLt(a, b)

FLe(a, b) == ~IsNaN(a) /\ ~IsNaN(b) /\ ~FLt(b, a)

FAbs(a) == <<Abs(a[1]), a[2]>>

\* f64::partial_cmp: None when either side is NaN
partial_cmp(a, b) ==
    IF IsNaN(a) \/ IsNaN(b) THEN "None"
    ELSE IF FLt(a, b) THEN "Less"
    ELSE IF FLt(b, a) THEN "Greater"
    ELSE "Equal"

IsSquare(n) == \E k \in 0..n : k * k = n
ISqrt(n) == CHOOSE k \in 0..n : k * k = n

\* the finite values whose f64 square root is exact in this representation
ExactSqrt(a) == Dyadic(a) /\ a[1] >= 0 /\ IsSquare(a[1]) /\ IsSquare(a[2])

\* f64::sqrt: NaN for NaN and negatives, infinity for infinity
FSqrt(a) ==
    IF IsNaN(a) \/ a[1] < 0 THEN NaN
    ELSE IF a[2] = 0 THEN a
    ELSE <<ISqrt(a[1]), ISqrt(a[2])>>

\* an array built by an iterator, as the sequence of its elements
ToVec(f) == f \o <<>>

RECURSIVE FSum(_)
FSum(s) == IF s = <<>> THEN F(0) ELSE FAdd(FSum(SubSeq(s, 1, Len(s) - 1)), s[Len(s)])

\* the comparison with the tolerance 1e-5 in the place of f64::EPSILON
float_eq_1e5(a, b) ==
    LET x == FAbs(FSub(a, b))
    IN  IF IsRational(x) THEN x[1] * 100000 < x[2] ELSE IsTiny(x)

\* |a - k * 2^-53| < 2^-52 for a rational a: a lies strictly between
\* (k - 2) * 2^-53 and (k + 2) * 2^-53, the difference of two f64 values
\* that close being an f64 value
NearTiny(a, k) == \A t \in {<<k - 2, 1>>, <<k + 2, -1>>} : CompareTiny(a, t[1]) = t[2]

\* |a - b| < f64::EPSILON = 2^-52, computed without leaving 32-bit integers:
\* n/d < 2^-52 iff n <= floor(floor((d-1) / 2^26) / 2^26)
\* a difference on the 2^-53 scale is below EPSILON when it is one unit
float_eq(a, b) ==
    IF Mixed(a, b)
    THEN NearTiny(IF IsTiny(b) THEN a ELSE b, IF IsTiny(b) THEN b[1] ELSE a[1])
    ELSE LET x == FAbs(FSub(a, b))
         IN  IF IsRational(x) THEN x[1] <= ((x[2] - 1) \div 67108864) \div 67108864
             ELSE IsTiny(x) /\ x[1] < 2

---------------------------------------------------------------------------
(* Intersections (geometry.rs).  An Intersection is [t, object]; object is *)
(* the identity of the sphere it borrows.                                  *)

Intersection_new(t, object) == [t |-> t, object |-> object]

\* the comparator of sort_by: a.t.partial_cmp(&b.t).unwrap() == Less
is_less(a, b) == partial_cmp(a.t, b.t) = "Less"

\* slice::sort_by is a stable sort: each element moves left past the
\* elements it is Less than
RECURSIVE insert_tail(_, _)
insert_tail(acc, x) ==
    IF acc = <<>> THEN <<x>>
    ELSE IF is_less(x, acc[Len(acc)])
         THEN Append(insert_tail(SubSeq(acc, 1, Len(acc) - 1), x), acc[Len(acc)])
         ELSE Append(acc, x)

RECURSIVE sort_by(_)
sort_by(v) ==
    IF v = <<>> THEN <<>>
    ELSE insert_tail(sort_by(SubSeq(v, 1, Len(v) - 1)), v[Len(v)])

sort_intersections_unsorted(v) == v

sort_intersections(v) == sort_by(v)

\* the unwrap() of the comparator panics when it is handed a NaN; a slice
\* of fewer than two elements is never compared
sort_panics(v) == Len(v) >= 2 /\ \E i \in 1..Len(v) : IsNaN(v[i].t)

\* a call either panics or returns a value
Panic == [panic |-> TRUE, val |-> <<>>]
Ok(v) == [panic |-> FALSE, val |-> v]

Intersections_new(v) ==
    IF sort_panics(v) THEN Panic ELSE Ok(sort_intersections(v))

Intersections_new_empty == <<>>

\* iter().find(|x| x.t >= 0.0)
Intersections_hit(v) ==
    LET idx == {i \in 1..Len(v) : FGe(v[i].t, F(0))}
    IN  IF idx = {} THEN <<>>
        ELSE <<v[CHOOSE i \in idx : \A j \in idx : i <= j]>>

---------------------------------------------------------------------------
(* Tuples and matrices (math.rs).  A Vector4f is <<x, y, z, w>>; a matrix  *)
(* of order O is its flat row-major array of O*O values.                   *)

new_point3_tuple(x, y, z) == <<x, y, z, F(1)>>
new_vector3_tuple(x, y, z) == <<x, y, z, F(0)>>

is_vector3_tuple(v) == float_eq(v[4], F(0))
is_point3_tuple(v) == float_eq(v[4], F(1))

\* the component-wise operators of Vector4f
Vector4f_add(a, b) == ToVec([i \in 1..4 |-> FAdd(a[i], b[i])])

Vector4f_sub(a, b) == ToVec([i \in 1..4 |-> FSub(a[i], b[i])])

Vector4f_neg(a) == ToVec([i \in 1..4 |-> FNeg(a[i])])

Vector4f_mul(a, rhs) == ToVec([i \in 1..4 |-> FMul(a[i], rhs)])

Vector4f_div_zero_safe(a, rhs) ==
    IF rhs = F(0) THEN a ELSE ToVec([i \in 1..4 |-> FDiv(a[i], rhs)])

Vector4f_div(a, rhs) == ToVec([i \in 1..4 |-> FDiv(a[i], rhs)])

Vector4f_dot(a, b) == FSum(ToVec([i \in 1..4 |-> FMul(a[i], b[i])]))

\* the value under the square root of magnitude()
magnitude_squared(v) == FSum(ToVec([i \in 1..4 |-> FMul(v[i], v[i])]))

Vector4f_magnitude(v) == FSqrt(magnitude_squared(v))

Vector4f_normalize(v) == Vector4f_div(v, Vector4f_magnitude(v))

MAT_ORDER(m) == CHOOSE o \in 1..4 : o * o = Len(m)

\* the two assertions of assert_bounds
assert_bounds(m, r, c) == r < MAT_ORDER(m) /\ c < MAT_ORDER(m)

get_flat_index_only(m, r, c) ==
    IF r * MAT_ORDER(m) + c < Len(m) THEN Ok(m[r * MAT_ORDER(m) + c + 1]) ELSE Panic

get(m, r, c) ==
    IF assert_bounds(m, r, c) THEN Ok(m[r * MAT_ORDER(m) + c + 1]) ELSE Panic

identity(o) ==
    ToVec([k \in 1..(o * o) |-> IF (k - 1) \div o = (k - 1) % o THEN F(1) ELSE F(0)])

transpose(m) ==
    LET o == MAT_ORDER(m)
    IN  ToVec([k \in 1..(o * o) |-> get(m, (k - 1) % o, (k - 1) \div o).val])

\* the kept cells in row-major order, as a sequence
submatrix_vals(m, remove_r, remove_c) ==
    LET o == MAT_ORDER(m)
        rows == [i \in 1..(o - 1) |-> IF i - 1 < remove_r THEN i - 1 ELSE i]
        cols == [j \in 1..(o - 1) |-> IF j - 1 < remove_c THEN j - 1 ELSE j]
    IN  ToVec([k \in 1..((o - 1) * (o - 1)) |->
            get(m, rows[((k - 1) \div (o - 1)) + 1], cols[((k - 1) % (o - 1)) + 1]).val])

\* Submatrix: an order-2 matrix yields the f64 itself
submatrix(m, remove_r, remove_c) ==
    IF MAT_ORDER(m) = 2 THEN submatrix_vals(m, remove_r, remove_c)[1]
    ELSE submatrix_vals(m, remove_r, remove_c)

RECURSIVE determinant(_)

minor(m, i, j) == determinant(submatrix(m, i, j))

cofactor_unsigned(m, i, j) == minor(m, i, j)

cofactor(m, i, j) ==
    LET sign == IF (i + j) % 2 = 0 THEN F(1) ELSE F(-1)
    IN  FMul(minor(m, i, j), sign)

\* the expansion along row 0 with the minors in the place of the cofactors
determinant_unsigned(m) ==
    IF Len(m) = 2 THEN m
    ELSE FSum(ToVec([k \in 1..MAT_ORDER(m) |->
                FMul(get(m, 0, k - 1).val, cofactor_unsigned(m, 0, k - 1))]))

\* Determinant for f64 returns the value; for a matrix, expansion along row 0
determinant(m) ==
    IF Len(m) = 2 THEN m
    ELSE FSum(ToVec([k \in 1..MAT_ORDER(m) |->
                FMul(get(m, 0, k - 1).val, cofactor(m, 0, k - 1))]))

\* m.submatrix(i, j), m.minor(i, j), m.cofactor(i, j) as called: the
\* assertion of submatrix_vals fails on an index outside the matrix
BaseMatrix_submatrix_transposed(m, remove_r, remove_c) ==
    IF assert_bounds(m, remove_r, remove_c) THEN Ok(submatrix(m, remove_c, remove_r))
    ELSE Panic

BaseMatrix_submatrix(m, remove_r, remove_c) ==
    IF assert_bounds(m, remove_r, remove_c) THEN Ok(submatrix(m, remove_r, remove_c))
    ELSE Panic

BaseMatrix_minor(m, i, j) ==
    IF assert_bounds(m, i, j) THEN Ok(minor(m, i, j)) ELSE Panic

BaseMatrix_cofactor(m, i, j) ==
    IF assert_bounds(m, i, j) THEN Ok(cofactor(m, i, j)) ELSE Panic

\* Mul<Vector4f> for Matrix4x4f
mul_vector4f(m, v) ==
    ToVec([r \in 1..4 |-> FSum(ToVec([i \in 1..4 |-> FMul(get(m, r - 1, i - 1).val, v[i])]))])

\* Matrix4x4f::inverse: None (<<>>) when the determinant is zero within the
\* float tolerance, else Some of the adjugate divided by the determinant
inverse(m) ==
    LET det == determinant(m)
        o == MAT_ORDER(m)
    IN  IF float_eq(det, F(0)) THEN <<>>
        ELSE <<ToVec([k \in 1..(o * o) |->
                  FDiv(cofactor(m, (k - 1) % o, (k - 1) \div o), det)])>>

translation(x, y, z) ==
    << F(1), F(0), F(0), x,
       F(0), F(1), F(0), y,
       F(0), F(0), F(1), z,
       F(0), F(0), F(0), F(1) >>

scaling(x, y, z) ==
    << x,    F(0), F(0), F(0),
       F(0), y,    F(0), F(0),
       F(0), F(0), z,    F(0),
       F(0), F(0), F(0), F(1) >>

\* From<Vector4f> for Point3f and for Vector3f: the assertion, then the wrap
Point3f_from(value) == IF is_point3_tuple(value) THEN Ok(value) ELSE Panic

Vector3f_from_unchecked(value) == Ok(value)

Vector3f_from(value) == IF is_vector3_tuple(value) THEN Ok(value) ELSE Panic

Point3f_new(x, y, z) == Point3f_from(new_point3_tuple(x, y, z))

Vector3f_new(x, y, z) == Vector3f_from(new_vector3_tuple(x, y, z))

\* the operators of Point3f and Vector3f, on the tuples they wrap
Point3f_add_Vector3f(self, rhs) == Point3f_from(Vector4f_add(self, rhs))

Point3f_sub_Point3f(self, rhs) == Vector3f_from(Vector4f_sub(self, rhs))

Point3f_sub_Vector3f_added(self, rhs) == Point3f_from(Vector4f_add(self, rhs))

Point3f_sub_Vector3f(self, rhs) == Point3f_from(Vector4f_sub(self, rhs))

Vector3f_add_Vector3f(self, rhs) == Vector3f_from(Vector4f_add(self, rhs))

Vector3f_add_Point3f(self, rhs) == Point3f_from(Vector4f_add(self, rhs))

Vector3f_sub_Vector3f(self, rhs) == Vector3f_from(Vector4f_sub(self, rhs))

Vector3f_neg(self) == Vector3f_from(Vector4f_neg(self))

Vector3f_mul(self, rhs) == Vector3f_from(Vector4f_mul(self, rhs))

Vector3f_div(self, rhs) == Vector3f_from(Vector4f_div(self, rhs))

Vector3f_normalize(self) == Vector3f_from(Vector4f_normalize(self))

cross_swapped(self, other) ==
    Vector3f_new(
        FSub(FMul(self[3], other[2]), FMul(self[2], other[3])),
        FSub(FMul(self[3], other[1]), FMul(self[1], other[3])),
        FSub(FMul(self[1], other[2]), FMul(self[2], other[1])))

Vector3f_cross(self, other) ==
    Vector3f_new(
        FSub(FMul(self[2], other[3]), FMul(self[3], other[2])),
        FSub(FMul(self[3], other[1]), FMul(self[1], other[3])),
        FSub(FMul(self[1], other[2]), FMul(self[2], other[1])))

\* Mul for BaseMatrix: cell (r, c) is the sum over i of self(r, i) * rhs(i, c)
BaseMatrix_mul_cellwise(self, rhs) ==
    ToVec([k \in 1..Len(self) |-> FMul(self[k], rhs[k])])

BaseMatrix_mul(self, rhs) ==
    LET o == MAT_ORDER(self)
    IN  ToVec([k \in 1..(o * o) |->
            FSum(ToVec([i \in 1..o |->
                FMul(get(self, (k - 1) \div o, i - 1).val,
                     get(rhs, i - 1, (k - 1) % o).val)]))])

---------------------------------------------------------------------------
(* Rays and spheres (geometry.rs).  A Ray is [origin, direction], a Point3f *)
(* and a Vector3f held as their tuples.                                     *)

Ray_new(origin, direction) == [origin |-> origin, direction |-> direction]

\* Ray::transform: Mul<Point3f> and Mul<Vector3f> for Matrix4x4f convert the
\* product back with the kind assertion
Ray_transform(ray, matrix) ==
    LET o == mul_vector4f(matrix, ray.origin)
        d == mul_vector4f(matrix, ray.direction)
    IN  IF is_point3_tuple(o) /\ is_vector3_tuple(d)
        THEN Ok(Ray_new(o, d))
        ELSE Panic

discriminant_of_no_radius(tray) ==
    LET sphere_to_ray == Vector4f_sub(tray.origin, new_point3_tuple(F(0), F(0), F(0)))
        a == Vector4f_dot(tray.direction, tray.direction)
        b == FMul(F(2), Vector4f_dot(tray.direction, sphere_to_ray))
        c == Vector4f_dot(sphere_to_ray, sphere_to_ray)
    IN  [a |-> a, b |-> b,
         disc |-> FSub(FMul(b, b), FMul(FMul(F(4), a), c))]

\* a, b, c and the discriminant of the object-space ray
discriminant_of(tray) ==
    LET sphere_to_ray == Vector4f_sub(tray.origin, new_point3_tuple(F(0), F(0), F(0)))
        a == Vector4f_dot(tray.direction, tray.direction)
        b == FMul(F(2), Vector4f_dot(tray.direction, sphere_to_ray))
        c == FSub(Vector4f_dot(sphere_to_ray, sphere_to_ray), F(1))
    IN  [a |-> a, b |-> b,
         disc |-> FSub(FMul(b, b), FMul(FMul(F(4), a), c))]

\* the roots with a tangent ray reported once
roots_tangent_once(q, sphere) ==
    IF FLt(q.disc, F(0)) THEN Ok(Intersections_new_empty)
    ELSE LET first == FDiv(FSub(FNeg(q.b), FSqrt(q.disc)), FMul(F(2), q.a))
             second == FDiv(FAdd(FNeg(q.b), FSqrt(q.disc)), FMul(F(2), q.a))
         IN  IF q.disc = F(0)
             THEN Intersections_new(<<Intersection_new(first, sphere)>>)
             ELSE Intersections_new(<<Intersection_new(first, sphere),
                                      Intersection_new(second, sphere)>>)

\* the roots from line 39 on
roots(q, sphere) ==
    IF FLt(q.disc, F(0)) THEN Ok(Intersections_new_empty)
    ELSE LET first == FDiv(FSub(FNeg(q.b), FSqrt(q.disc)), FMul(F(2), q.a))
             second == FDiv(FAdd(FNeg(q.b), FSqrt(q.disc)), FMul(F(2), q.a))
         IN  Intersections_new(<<Intersection_new(first, sphere),
                                 Intersection_new(second, sphere)>>)

intersect_sphere_renormalised(ray, tr, sphere) ==
    LET inv == inverse(tr)
    IN  IF inv = <<>> THEN Panic
        ELSE LET t == Ray_transform(ray, inv[1])
             IN  IF t.panic THEN Panic
                 ELSE roots(discriminant_of(
                        Ray_new(t.val.origin, Vector4f_normalize(t.val.direction))), sphere)

intersect_sphere_unchecked_inverse(ray, tr, sphere) ==
    LET inv == inverse(tr)
        t == Ray_transform(ray, IF inv = <<>> THEN identity(4) ELSE inv[1])
    IN  IF t.panic THEN Panic ELSE roots(discriminant_of(t.val), sphere)

\* Ray::intersect_sphere; tr is sphere.transform, sphere its identity
intersect_sphere(ray, tr, sphere) ==
    LET inv == inverse(tr)
    IN  IF inv = <<>> THEN Panic
        ELSE LET t == Ray_transform(ray, inv[1])
             IN  IF t.panic THEN Panic
                 ELSE roots(discriminant_of(t.val), sphere)

\* the vector normal_at normalises, or Panic on the failed inverse
world_normal_of(tr, world_point) ==
    LET inv == inverse(tr)
    IN  IF inv = <<>> THEN Panic
        ELSE LET object_origin == new_point3_tuple(F(0), F(0), F(0))
                 object_point == mul_vector4f(inv[1], world_point)
                 object_normal == Vector4f_sub(object_point, object_origin)
                 world_normal == mul_vector4f(transpose(inv[1]), object_normal)
             IN  Ok(new_vector3_tuple(world_normal[1], world_normal[2], world_normal[3]))

\* Sphere::normal_at; Vector3f::normalize converts back with the kind
\* assertion, which a NaN w fails
normal_at(tr, world_point) ==
    LET wn == world_normal_of(tr, world_point)
    IN  IF wn.panic THEN Panic
        ELSE LET n == Vector4f_normalize(wn.val)
             IN  IF is_vector3_tuple(n) THEN Ok(n) ELSE Panic

---------------------------------------------------------------------------
(* Inputs of the geometry operations.                                      *)

MaxLen == 4
MaxY == 2
MaxZ == 5

TVals == {F(-3), F(0), F(2), F(5), F(7), NaN}

\* the intersections a caller may hand to Intersections::new: every t on
\* sphere 1, and two of them on sphere 2 as well
Pool ==
    {Intersection_new(t, 1) : t \in TVals}
        \cup {Intersection_new(F(-3), 2), Intersection_new(F(2), 2)}

Vecs == UNION {[1..n -> Pool] : n \in 0..MaxLen}

Transforms ==
    { identity(4),
      scaling(F(2), F(2), F(2)),
      translation(F(5), F(0), F(0)),
      scaling(F(0), F(1), F(1)) }

Rays ==
    {Ray_new(new_point3_tuple(F(x), F(y), F(z)), new_vector3_tuple(F(0), F(0), F(dz))) :
        x \in {0, 5}, y \in (-MaxY)..MaxY, z \in (-MaxZ)..MaxZ, dz \in 0..2}

Points ==
    {new_point3_tuple(F(x), F(y), F(z)) : x \in {0, 1, 2, 6}, y \in 0..MaxY, z \in {0, 1}}

AllDyadic(t) == \A i \in 1..Len(t) : Dyadic(t[i])

\* the rays whose roots are exact: the transform, its inverse and the ray
\* hold f64 values of few bits, and the square root under line 42 is taken
\* of a square (or not taken at all)
RayInDomain(ray, tr) ==
    LET inv == inverse(tr)
    IN  IF ~(AllDyadic(tr) /\ AllDyadic(ray.origin) /\ AllDyadic(ray.direction)) THEN FALSE
        ELSE IF inv = <<>> THEN TRUE
        ELSE IF ~AllDyadic(inv[1]) THEN FALSE
        ELSE LET t == Ray_transform(ray, inv[1])
             IN  IF t.panic THEN TRUE
                 ELSE LET q == discriminant_of(t.val)
                      IN  IF IsNaN(q.disc) \/ FLt(q.disc, F(0)) THEN TRUE
                          ELSE ExactSqrt(q.disc)

\* the points whose normal has an exact magnitude
PointInDomain(p, tr) ==
    LET wn == world_normal_of(tr, p)
    IN  IF ~(AllDyadic(tr) /\ AllDyadic(p)) THEN FALSE
        ELSE IF wn.panic THEN TRUE
        ELSE AllDyadic(inverse(tr)[1]) /\ ExactSqrt(magnitude_squared(wn.val))

---------------------------------------------------------------------------
(* The caller of the geometry operations.  A panic ends the computation.   *)

NoCall == [op |-> "none"]

GeomInit ==
    /\ pc = "idle"
    /\ transform = identity(4)
    /\ xs = <<>>
    /\ arg = NoCall
    /\ hitres = <<>>
    /\ normal = <<>>

\* Intersections::new(v)
IntersectionsNew(v) ==
    /\ pc = "idle"
    /\ LET r == Intersections_new(v)
       IN  /\ pc' = IF r.panic THEN "panicked" ELSE "built"
           /\ xs' = r.val
    /\ arg' = [op |-> "new", v |-> v]
    /\ UNCHANGED <<transform, hitres, normal>>
    /\ UNCHANGED <<canvasVars, mathVars>>

\* Intersections::new_empty()
IntersectionsNewEmpty ==
    /\ pc = "idle"
    /\ pc' = "built"
    /\ xs' = Intersections_new_empty
    /\ arg' = [op |-> "new_empty"]
    /\ UNCHANGED <<transform, hitres, normal>>
    /\ UNCHANGED <<canvasVars, mathVars>>

\* xs.hit()
Hit ==
    /\ pc = "built"
    /\ pc' = "hit"
    /\ hitres' = Intersections_hit(xs)
    /\ UNCHANGED <<transform, xs, arg, normal>>
    /\ UNCHANGED <<canvasVars, mathVars>>

\* the results go out of scope
Drop ==
    /\ pc \in {"built", "hit", "normal"}
    /\ pc' = "idle"
    /\ xs' = <<>>
    /\ arg' = NoCall
    /\ hitres' = <<>>
    /\ normal' = <<>>
    /\ UNCHANGED transform
    /\ UNCHANGED <<canvasVars, mathVars>>

\* sphere.set_transform(m): needs the sphere unborrowed, so no live Intersections
SetTransform(m) ==
    /\ pc = "idle"
    /\ transform' = m
    /\ UNCHANGED <<pc, xs, arg, hitres, normal>>
    /\ UNCHANGED <<canvasVars, mathVars>>

\* ray.intersect_sphere(&sphere)
IntersectSphere(ray) ==
    /\ pc = "idle"
    /\ RayInDomain(ray, transform)
    /\ LET r == intersect_sphere(ray, transform, 1)
       IN  /\ pc' = IF r.panic THEN "panicked" ELSE "built"
           /\ xs' = r.val
    /\ arg' = [op |-> "intersect_sphere", ray |-> ray]
    /\ UNCHANGED <<transform, hitres, normal>>
    /\ UNCHANGED <<canvasVars, mathVars>>

\* sphere.normal_at(&world_point)
NormalAt(p) ==
    /\ pc = "idle"
    /\ PointInDomain(p, transform)
    /\ LET r == normal_at(transform, p)
       IN  /\ pc' = IF r.panic THEN "panicked" ELSE "normal"
           /\ normal' = IF r.panic THEN <<>> ELSE <<r.val>>
    /\ arg' = [op |-> "normal_at", world_point |-> p]
    /\ UNCHANGED <<transform, xs, hitres>>
    /\ UNCHANGED <<canvasVars, mathVars>>

---------------------------------------------------------------------------
(* Canvas (graphics.rs).  A Color is <<r, g, b>>; coordinates count from 0. *)

Color_new(r, g, b) == <<r, g, b>>

BLACK == Color_new(F(0), F(0), F(0))

Canvas_new(w, h) == ToVec([y \in 1..h |-> ToVec([x \in 1..w |-> BLACK])])

Canvas_w(px) == IF px = <<>> THEN 0 ELSE Len(px[1])

Canvas_h(px) == Len(px)

\* the two assertions, in order, then the read
Canvas_px(px, x, y) ==
    IF ~(y < Len(px)) THEN Panic
    ELSE IF ~(x < Len(px[y + 1])) THEN Panic
    ELSE Ok(px[y + 1][x + 1])

Canvas_write_px_fill_row(px, x, y, color) ==
    IF ~(y < Len(px)) THEN Panic
    ELSE IF ~(x < Len(px[y + 1])) THEN Panic
    ELSE Ok([px EXCEPT ![y + 1] = ToVec([i \in 1..Len(px[y + 1]) |-> color])])

\* a single flat bounds check in place of the two assertions
Canvas_write_px_flat(px, x, y, color) ==
    LET w == IF px = <<>> THEN 0 ELSE Len(px[1])
        i == y * w + x
    IN  IF ~(i < w * Len(px)) THEN Panic
        ELSE Ok([px EXCEPT ![(i \div w) + 1][(i % w) + 1] = color])

Canvas_write_px(px, x, y, color) ==
    IF ~(y < Len(px)) THEN Panic
    ELSE IF ~(x < Len(px[y + 1])) THEN Panic
    ELSE Ok([px EXCEPT ![y + 1][x + 1] = color])

---------------------------------------------------------------------------
(* canvas_to_ppm (image.rs).  A String is its sequence of characters.      *)

NL == "\n"

DigitChar(d) == <<"0", "1", "2", "3", "4", "5", "6", "7", "8", "9">>[d + 1]

RECURSIVE digits(_)
digits(n) == IF n < 10 THEN <<DigitChar(n)>> ELSE Append(digits(n \div 10), DigitChar(n % 10))

\* to_string() of an integer
to_string(n) == IF n < 0 THEN <<"-">> \o digits(-n) ELSE digits(n)

\* the cast `as i32`: NaN gives 0, the fraction is dropped, the range saturates
as_i32(x) ==
    IF IsNaN(x) THEN 0
    ELSE IF x[2] = 0 \/ IsHuge(x) THEN (IF x[1] > 0 THEN 2147483647 ELSE -2147483647 - 1)
    ELSE IF IsTiny(x) THEN 0
    ELSE IF x[1] >= 0 THEN x[1] \div x[2]
    ELSE -((-x[1]) \div x[2])

to_int_unclamped(v) == as_i32(FMul(v, F(255)))

to_int(v) ==
    IF FLt(v, F(0)) THEN 0
    ELSE IF FLt(F(1), v) THEN 255
    ELSE as_i32(FMul(v, F(255)))

\* the flat_map of one row: r, g, b of each pixel, left to right
RECURSIVE row_values(_)
row_values(row) ==
    IF row = <<>> THEN <<>>
    ELSE LET c == row[Len(row)]
         IN  row_values(SubSeq(row, 1, Len(row) - 1))
                \o <<to_int(c[1]), to_int(c[2]), to_int(c[3])>>

\* the for_each over the values of one row: [output, current] after value i
RECURSIVE wrap_ignoring_space(_, _, _, _)
wrap_ignoring_space(vals, i, current, output) ==
    IF i > Len(vals) THEN [output |-> output, current |-> current]
    ELSE LET v == to_string(vals[i])
         IN  IF current = <<>> THEN wrap_ignoring_space(vals, i + 1, v, output)
             ELSE IF Len(current) + Len(v) <= 70
                  THEN wrap_ignoring_space(vals, i + 1, current \o <<" ">> \o v, output)
                  ELSE wrap_ignoring_space(vals, i + 1, v, Append(output, current))

\* the for_each with the limit one character short
RECURSIVE wrap_below_70(_, _, _, _)
wrap_below_70(vals, i, current, output) ==
    IF i > Len(vals) THEN [output |-> output, current |-> current]
    ELSE LET v == to_string(vals[i])
             v_str == <<" ">> \o v
         IN  IF current = <<>> THEN wrap_below_70(vals, i + 1, v, output)
             ELSE IF Len(current) + Len(v_str) < 70
                  THEN wrap_below_70(vals, i + 1, current \o v_str, output)
                  ELSE wrap_below_70(vals, i + 1, v, Append(output, current))

RECURSIVE wrap(_, _, _, _)
wrap(vals, i, current, output) ==
    IF i > Len(vals) THEN [output |-> output, current |-> current]
    ELSE LET v == to_string(vals[i])
             v_str == <<" ">> \o v
         IN  IF current = <<>> THEN wrap(vals, i + 1, v, output)
             ELSE IF Len(current) + Len(v_str) <= 70
                  THEN wrap(vals, i + 1, current \o v_str, output)
                  ELSE wrap(vals, i + 1, v, Append(output, current))

push_row_always(output, row) ==
    LET r == wrap(row_values(row), 1, <<>>, output)
    IN  Append(r.output, r.current)

\* one step of the for_each over y: the lines of row y pushed onto output
push_row(output, row) ==
    LET r == wrap(row_values(row), 1, <<>>, output)
    IN  IF r.current # <<>> THEN Append(r.output, r.current) ELSE r.output

\* the rows pushed bottom row first
RECURSIVE push_rows_reversed(_, _, _)
push_rows_reversed(output, px, y) ==
    IF y >= Len(px) THEN output
    ELSE push_rows_reversed(push_row(output, px[Len(px) - y]), px, y + 1)

RECURSIVE push_rows(_, _, _)
push_rows(output, px, y) ==
    IF y >= Len(px) THEN output
    ELSE push_rows(push_row(output, px[y + 1]), px, y + 1)

\* [String]::join("\n")
RECURSIVE join(_)
join(lines) ==
    IF Len(lines) = 0 THEN <<>>
    ELSE IF Len(lines) = 1 THEN lines[1]
    ELSE join(SubSeq(lines, 1, Len(lines) - 1)) \o <<NL>> \o lines[Len(lines)]

ppm_header(px) ==
    << <<"P", "3">>,
       to_string(Canvas_w(px)) \o <<" ">> \o to_string(Canvas_h(px)),
       <<"2", "5", "5">> >>

canvas_to_ppm(px) ==
    join(Append(push_rows(ppm_header(px), px, 0), <<>>))

---------------------------------------------------------------------------
(* The caller of the canvas operations.                                    *)

MaxW == 6
MaxH == 2
MaxPixels == 6

\* a caller that plots single points, as the binaries do, on a canvas of one
\* row of up to MaxWide pixels leaves at most MaxPoints pixels not black
MaxWide == 12
MaxPoints == 1

\* the sizes a caller creates
Sizes ==
    {wh \in (0..MaxWide) \X (0..MaxH) :
        wh[1] * wh[2] <= MaxPixels \/ (wh[2] = 1 /\ wh[1] <= MaxWide)}

\* the x a caller passes: up to one past the last column
Xs(px) == 0..(IF Canvas_w(px) > MaxW THEN Canvas_w(px) ELSE MaxW)

\* the number of pixels that are not black
Plotted(px) ==
    Cardinality({xy \in (1..Canvas_w(px)) \X (1..Canvas_h(px)) : px[xy[2]][xy[1]] # BLACK})

\* the canvases the caller draws on: any of at most MaxPixels pixels, and
\* the larger ones with at most MaxPoints points
Drawable(px) ==
    IF Canvas_w(px) * Canvas_h(px) <= MaxPixels THEN TRUE ELSE Plotted(px) <= MaxPoints

\* the colours a caller writes: 255 127 255 and 0 63 0 after to_int
Colors ==
    { BLACK,
      Color_new(<<3, 2>>, <<1, 2>>, F(1)),
      Color_new(<<-1, 2>>, <<1, 4>>, NaN) }

CanvasInit ==
    /\ cpc = "none"
    /\ canvas = <<>>
    /\ made = <<0, 0>>
    /\ pxres = <<>>
    /\ ppm = <<>>
    /\ cop = <<"none">>
    /\ lastw = <<>>

\* Canvas::new(w, h)
CanvasNew(w, h) ==
    /\ cpc # "panicked"
    /\ cpc' = "new"
    /\ canvas' = Canvas_new(w, h)
    /\ made' = <<w, h>>
    /\ pxres' = <<>>
    /\ ppm' = <<>>
    /\ cop' = <<"new">>
    /\ lastw' = ToVec([y \in 1..h |-> ToVec([x \in 1..w |-> BLACK])])
    /\ UNCHANGED <<geomVars, mathVars>>

\* canvas.write_px(x, y, color); the results read from the old canvas are let go
WritePx(x, y, color) ==
    /\ cpc \in {"new", "written"}
    /\ LET r == Canvas_write_px(canvas, x, y, color)
       IN  /\ IF r.panic THEN TRUE ELSE Drawable(r.val)
           /\ cpc' = IF r.panic THEN "panicked" ELSE "written"
           /\ canvas' = IF r.panic THEN canvas ELSE r.val
    /\ pxres' = <<>>
    /\ ppm' = <<>>
    /\ cop' = <<"write_px", x, y>>
    /\ lastw' = IF y < Len(lastw) /\ x < Len(lastw[y + 1])
                THEN [lastw EXCEPT ![y + 1][x + 1] = color]
                ELSE lastw
    /\ UNCHANGED <<made>>
    /\ UNCHANGED <<geomVars, mathVars>>

\* canvas.px(x, y)
Px(x, y) ==
    /\ cpc \in {"new", "written"}
    /\ LET r == Canvas_px(canvas, x, y)
       IN  /\ cpc' = IF r.panic THEN "panicked" ELSE cpc
           /\ pxres' = IF r.panic THEN <<>> ELSE <<x, y, r.val>>
    /\ ppm' = <<>>
    /\ cop' = <<"px", x, y>>
    /\ UNCHANGED <<canvas, made, lastw>>
    /\ UNCHANGED <<geomVars, mathVars>>

\* canvas_to_ppm(&canvas)
CanvasToPpm ==
    /\ cpc \in {"new", "written"}
    /\ ppm' = <<canvas_to_ppm(canvas)>>
    /\ pxres' = <<>>
    /\ cop' = <<"canvas_to_ppm">>
    /\ UNCHANGED <<cpc, canvas, made, lastw>>
    /\ UNCHANGED <<geomVars, mathVars>>

CanvasNext ==
    \/ \E wh \in Sizes : CanvasNew(wh[1], wh[2])
    \/ \E x \in Xs(canvas), y \in 0..MaxH, color \in Colors : WritePx(x, y, color)
    \/ \E x \in Xs(canvas), y \in 0..MaxH : Px(x, y)
    \/ CanvasToPpm

XsNext ==
    \/ \E v \in Vecs : IntersectionsNew(v)
    \/ IntersectionsNewEmpty
    \/ Hit
    \/ Drop

SphereNext ==
    \/ \E m \in Transforms : SetTransform(m)
    \/ \E ray \in Rays : IntersectSphere(ray)
    \/ \E p \in Points : NormalAt(p)
    \/ Hit
    \/ Drop

---------------------------------------------------------------------------
(* Shading (shading.rs).  A Material is [color, ambient, diffuse,          *)
(* specular, shininess], a PointLight [position, intensity].               *)

\* the operators of Color
Color_add_clamped(a, b) ==
    ToVec([i \in 1..3 |->
        IF FLt(F(1), FAdd(a[i], b[i])) THEN F(1) ELSE FAdd(a[i], b[i])])

Color_add(a, b) == ToVec([i \in 1..3 |-> FAdd(a[i], b[i])])

Color_mul_f64(a, rhs) == ToVec([i \in 1..3 |-> FMul(a[i], rhs)])

Color_mul(a, b) == ToVec([i \in 1..3 |-> FMul(a[i], b[i])])

Vector3f_dot(self, other) == Vector4f_dot(self, other)

\* Vector3f::reflect: self - n * 2 * self.dot(n), n the normal
reflect(self, n) ==
    LET scaled == Vector3f_mul(n, FMul(F(2), Vector3f_dot(self, n)))
    IN  IF scaled.panic THEN Panic ELSE Vector3f_sub_Vector3f(self, scaled.val)

\* f64::powf: 1 for the base 1 and for the exponent 0, whatever the other
\* operand; NaN for a NaN operand otherwise; for the base 0, infinity for a
\* negative exponent and 0 for a positive one; for the other bases, the
\* product by squaring for an exponent that is a positive integer
RECURSIVE powf(_, _)
powf(x, y) ==
    IF x = F(1) \/ y = F(0) THEN F(1)
    ELSE IF IsNaN(x) \/ IsNaN(y) THEN NaN
    ELSE IF x = F(0) THEN (IF y[1] < 0 THEN <<1, 0>> ELSE F(0))
    ELSE IF y[1] % 2 = 0
         THEN LET h == powf(x, <<y[1] \div 2, 1>>) IN FMul(h, h)
         ELSE FMul(powf(x, <<y[1] - 1, 1>>), x)

PointLight_new(position, intensity) == [position |-> position, intensity |-> intensity]

Material_new(color, ambient, diffuse, specular, shininess) ==
    [color |-> color, ambient |-> ambient, diffuse |-> diffuse,
     specular |-> specular, shininess |-> shininess]

Material_default ==
    Material_new(Color_new(F(1), F(1), F(1)), <<1, 10>>, <<9, 10>>, <<9, 10>>, F(200))

\* line 66: the unit vector from the point to the light
light_vector_reversed(args) ==
    LET d == Point3f_sub_Point3f(args.point, args.light.position)
    IN  IF d.panic THEN Panic ELSE Vector3f_normalize(d.val)

light_vector(args) ==
    LET d == Point3f_sub_Point3f(args.light.position, args.point)
    IN  IF d.panic THEN Panic ELSE Vector3f_normalize(d.val)

\* lines 76-77
reflect_dot_eye_of(args, lightv) ==
    LET reflectv == reflect(Vector3f_neg(lightv).val, args.normalv)
    IN  IF reflectv.panic THEN Panic ELSE Ok(Vector3f_dot(reflectv.val, args.eyev))

\* lighting: [ambient, diffuse, specular] before line 89, or the panic of a
\* vector operation
lighting_terms(args) ==
    LET effective_color == Color_mul(args.material.color, args.light.intensity)
        lv == light_vector(args)
    IN  IF lv.panic THEN Panic
        ELSE LET lightv == lv.val
                 ambient == Color_mul_f64(effective_color, args.material.ambient)
                 light_dot_normal == Vector3f_dot(lightv, args.normalv)
             IN  IF FLt(light_dot_normal, F(0))
                 THEN Ok([ambient |-> ambient, diffuse |-> BLACK, specular |-> BLACK])
                 ELSE LET diffuse == Color_mul_f64(
                                         Color_mul_f64(effective_color, args.material.diffuse),
                                         light_dot_normal)
                          rde == reflect_dot_eye_of(args, lightv)
                      IN  IF rde.panic THEN Panic
                          ELSE LET reflect_dot_eye == rde.val
                                   specular ==
                                       IF FLe(reflect_dot_eye, F(0)) THEN BLACK
                                       ELSE Color_mul_f64(
                                                Color_mul_f64(args.light.intensity,
                                                              args.material.specular),
                                                powf(reflect_dot_eye, args.material.shininess))
                               IN  Ok([ambient |-> ambient, diffuse |-> diffuse,
                                       specular |-> specular])

\* lighting: ambient + diffuse + specular
lighting(args) ==
    LET t == lighting_terms(args)
    IN  IF t.panic THEN Panic
        ELSE Ok(Color_add(Color_add(t.val.ambient, t.val.diffuse), t.val.specular))

---------------------------------------------------------------------------
(* The caller of the math kernel.  A value is [kind, t]: the name of its   *)
(* type and its array of f64 (or, for an index pair, of usize).  An        *)
(* operation takes its operands from the inputs below; one further         *)
(* operation may take the value just returned as an operand.  A panic ends  *)
(* the computation.                                                        *)

MaxIndex == 4

V(kind, t) == [kind |-> kind, t |-> t]

Nothing == V("Nothing", <<>>)

Scalars == {F(0), F(2), F(4), F(-1), <<1, 2>>}

\* the w of the raw tuples: the two kinds, their neighbours at one and two
\* units of 2^-53, and values of neither kind
Ws == {F(0), F(1), F(2), <<1, 2>>, Tiny(1), Tiny(2), NaN}

Tuples == {<<F(1), F(-2), F(3), w>> : w \in Ws}

Point3fs ==
    { Point3f_new(F(0), F(0), F(0)).val,
      Point3f_new(F(1), F(0), F(0)).val,
      Point3f_new(F(3), F(-2), F(5)).val,
      Point3f_new(<<1, 2>>, F(1), F(-1)).val }

Vector3fs ==
    { Vector3f_new(F(0), F(0), F(0)).val,
      Vector3f_new(F(1), F(0), F(0)).val,
      Vector3f_new(F(3), F(4), F(0)).val,
      Vector3f_new(F(1), F(2), F(3)).val,
      Vector3f_new(F(2), F(3), F(4)).val,
      Vector3f_new(F(-2), <<3, 2>>, F(1)).val,
      Vector3f_new(Huge(1), F(0), F(0)).val }

\* the matrix of bin/ch03_matrix
ch03_m ==
    << F(8),  F(-5), F(9),  F(2),
       F(7),  F(5),  F(6),  F(1),
       F(-6), F(0),  F(9),  F(6),
       F(-3), F(0),  F(-9), F(-4) >>

Matrices ==
    { identity(2), <<F(1), F(2), F(3), F(4)>>, <<F(-3), F(5), F(1), F(-2)>>,
      identity(3), <<F(1), F(2), F(6), F(-5), F(8), F(-4), F(2), F(6), F(4)>>,
      identity(4), ch03_m,
      scaling(F(2), F(2), F(2)), translation(F(5), F(0), F(0)),
      scaling(F(0), F(1), F(1)), scaling(Tiny(1), F(1), F(1)),
      << F(2), F(1), F(0), F(0),
         F(0), F(1), F(3), F(0),
         F(0), F(0), F(4), F(1),
         F(0), F(0), F(0), F(1) >> }

MatricesOf(o) == {m \in Matrices : Len(m) = o * o}

\* the operations for which the model gives the f64 result
RECURSIVE SumExact(_)
SumExact(s) ==
    IF s = <<>> THEN TRUE
    ELSE /\ SumExact(SubSeq(s, 1, Len(s) - 1))
         /\ AddExact(FSum(SubSeq(s, 1, Len(s) - 1)), s[Len(s)])

DotExact(a, b) ==
    /\ \A i \in 1..Len(a) : MulExact(a[i], b[i])
    /\ SumExact(ToVec([i \in 1..Len(a) |-> FMul(a[i], b[i])]))

Row(m, r) == LET o == MAT_ORDER(m) IN ToVec([i \in 1..o |-> m[(r - 1) * o + i]])

Col(m, c) == LET o == MAT_ORDER(m) IN ToVec([i \in 1..o |-> m[(i - 1) * o + c]])

MatMulExact(a, b) ==
    \A r \in 1..MAT_ORDER(a), c \in 1..MAT_ORDER(a) : DotExact(Row(a, r), Col(b, c))

MatVecExact(m, v) == \A r \in 1..4 : DotExact(Row(m, r), v)

AllRational(m) == \A k \in 1..Len(m) : IsRational(m[k])

\* sum over i of |a[i] * b[i]|, unrounded
AbsDot(a, b) == FSum(ToVec([i \in 1..Len(a) |-> FAbs(FMul(a[i], b[i]))]))

Ceil(q) == (q[1] + q[2] - 1) \div q[2]

\* a bound on the rounding of a * b.  A cell is a sum of MAT_ORDER products
\* of f64 operands, each operand within 2^-53 (relative) of the rational
\* that denotes it and each product and each partial sum rounded once: at
\* most seven roundings on a term, so the f64 cell is within
\* 8 * 2^-53 * sum over i of |a(r, i) * b(i, c)| of the unrounded cell
RoundingBound(a, b) ==
    LET o == MAT_ORDER(a)
        sums == {Ceil(AbsDot(Row(a, r), Col(b, c))) : r \in 1..o, c \in 1..o}
    IN  Tiny(8 * (CHOOSE x \in sums : \A y \in sums : y <= x))

AddExact4(a, b) == \A i \in 1..4 : AddExact(a[i], b[i])

Rational3(v) == \A i \in 1..3 : IsRational(v[i])

RECURSIVE DetExact(_)
DetExact(m) ==
    IF Len(m) = 2 THEN TRUE
    ELSE /\ \A k \in 1..MAT_ORDER(m) :
               /\ DetExact(submatrix(m, 0, k - 1))
               /\ MulExact(m[k], cofactor(m, 0, k - 1))
         /\ SumExact(ToVec([k \in 1..MAT_ORDER(m) |-> FMul(m[k], cofactor(m, 0, k - 1))]))

InverseExact(m) ==
    /\ DetExact(m)
    /\ \/ float_eq(determinant(m), F(0))
       \/ \A i \in 0..3, j \in 0..3 :
             /\ DetExact(submatrix(m, i, j))
             /\ DivExact(cofactor(m, j, i), determinant(m))

NormalizeExact(v) ==
    /\ \A i \in 1..4 : IsRational(v[i])
    /\ DotExact(v, v)
    /\ ExactSqrt(magnitude_squared(v))
    /\ \A i \in 1..4 : DivExact(v[i], Vector4f_magnitude(v))

\* x * y - z * w
MulSubExact(x, y, z, w) ==
    /\ \A p \in {<<x, y>>, <<z, w>>} : MulExact(p[1], p[2])
    /\ AddExact(FMul(x, y), FNeg(FMul(z, w)))

CrossExact(a, b) ==
    /\ Rational3(a) /\ Rational3(b)
    /\ \A t \in {<<2, 3>>, <<3, 1>>, <<1, 2>>} :
          MulSubExact(a[t[1]], b[t[2]], a[t[2]], b[t[1]])

ColorMulExact(a, b) == \A i \in 1..3 : MulExact(a[i], b[i])

ColorScaleExact(a, rhs) == \A i \in 1..3 : MulExact(a[i], rhs)

ColorAddExact(a, b) == \A i \in 1..3 : AddExact(a[i], b[i])

ReflectExact(v, n) ==
    /\ DotExact(v, n)
    /\ LET k == FMul(F(2), Vector3f_dot(v, n))
       IN  /\ \A i \in 1..4 : MulExact(n[i], k)
           /\ AddExact4(v, Vector4f_neg(Vector4f_mul(n, k)))

\* the arguments of lighting: the default material and a duller one, lights
\* in front of, behind and beside the surface
Materials ==
    { Material_default,
      Material_new(Color_new(F(1), <<1, 2>>, F(0)), <<1, 2>>, <<1, 2>>, <<1, 4>>, F(2)) }

Lights ==
    {PointLight_new(Point3f_new(F(x), F(y), F(z)).val, i) :
        x \in {0}, y \in {0, 3, 10}, z \in {-10, -4, 0, 10},
        i \in {Color_new(F(1), F(1), F(1)), Color_new(<<1, 2>>, F(1), F(2))}}

Eyes ==
    { Vector3f_new(F(0), F(0), F(-1)).val,
      Vector3f_new(F(0), F(-1), F(0)).val,
      Vector3f_new(F(0), F(1), F(0)).val,
      Vector3f_new(F(0), <<3, 5>>, <<-4, 5>>).val,
      Vector3f_new(F(0), F(0), <<-1, 2>>).val }

Normals == {Vector3f_new(F(0), F(0), F(-1)).val, Vector3f_new(F(0), F(1), F(0)).val}

LightingArgs ==
    {[material |-> m, light |-> l, point |-> Point3f_new(F(0), F(0), F(0)).val,
      eyev |-> e, normalv |-> n] :
        m \in Materials, l \in Lights, e \in Eyes, n \in Normals}

\* the power of line 82 is modelled for the bases 0 and 1 with every
\* exponent, and for a base that is an f64 value with the exponent 2
PowfExact(x, y) ==
    IF x = F(1) THEN TRUE
    ELSE IF x = F(0) THEN ~(y[2] = 1 /\ y[1] < 0 /\ (-y[1]) % 2 = 1)
    ELSE Dyadic(x) /\ y = F(2)

\* the arguments for which the model gives the f64 result, operation by
\* operation in the order of lighting: the terms t of line 89
TermsExact(t) ==
    /\ ColorAddExact(t.val.ambient, t.val.diffuse)
    /\ ColorAddExact(Color_add(t.val.ambient, t.val.diffuse), t.val.specular)

\* lines 82-84
SpecularExact(args, reflect_dot_eye) ==
    IF FLe(reflect_dot_eye, F(0)) THEN TRUE
    ELSE /\ PowfExact(reflect_dot_eye, args.material.shininess)
         /\ ColorScaleExact(args.light.intensity, args.material.specular)
         /\ ColorScaleExact(Color_mul_f64(args.light.intensity, args.material.specular),
                            powf(reflect_dot_eye, args.material.shininess))

\* line 77
ReflectDotEyeExact(args, reflectv) ==
    IF reflectv.panic THEN TRUE
    ELSE IF ~DotExact(reflectv.val, args.eyev) THEN FALSE
    ELSE IF ~SpecularExact(args, Vector3f_dot(reflectv.val, args.eyev)) THEN FALSE
    ELSE TermsExact(lighting_terms(args))

\* lines 71-76
DiffuseExact(args, effective_color, lightv, light_dot_normal) ==
    IF FLt(light_dot_normal, F(0)) THEN TRUE
    ELSE IF ~(/\ ColorScaleExact(effective_color, args.material.diffuse)
              /\ ColorScaleExact(Color_mul_f64(effective_color, args.material.diffuse),
                                 light_dot_normal)
              /\ ReflectExact(Vector3f_neg(lightv).val, args.normalv))
         THEN FALSE
    ELSE ReflectDotEyeExact(args, reflect(Vector3f_neg(lightv).val, args.normalv))

\* line 69
LightDotNormalExact(args, effective_color, lv) ==
    IF lv.panic THEN TRUE
    ELSE IF ~DotExact(lv.val, args.normalv) THEN FALSE
    ELSE DiffuseExact(args, effective_color, lv.val, Vector3f_dot(lv.val, args.normalv))

\* line 66
LightVectorExact(d) == ~d.panic /\ NormalizeExact(d.val)

LightingExact(args) ==
    /\ ColorMulExact(args.material.color, args.light.intensity)
    /\ AddExact4(args.light.position, Vector4f_neg(args.point))
    /\ LightVectorExact(Point3f_sub_Point3f(args.light.position, args.point))
    /\ ColorScaleExact(Color_mul(args.material.color, args.light.intensity),
                       args.material.ambient)
    /\ LightDotNormalExact(args, Color_mul(args.material.color, args.light.intensity),
                           light_vector(args))

MathInit ==
    /\ mpc = "ready"
    /\ mop = [op |-> "none", a |-> Nothing, b |-> Nothing, src |-> <<>>]
    /\ held = Nothing

\* the values an operand of the given type may take: an input when nothing
\* is held, the held value when it has that type and came from inputs
Arg(kind, fresh) ==
    IF mpc = "ready" THEN fresh
    ELSE IF mpc = "held" /\ mop.src = <<>> /\ held.kind = kind THEN {held.t}
    ELSE {}

\* the call op(a, b) returned r, a value of type kind unless it panicked
Apply(op, a, b, r, kind) ==
    /\ mpc' = IF r.panic THEN "panicked" ELSE "held"
    /\ held' = IF r.panic THEN Nothing ELSE V(kind, r.val)
    /\ mop' = [op |-> op, a |-> a, b |-> b,
               src |-> IF mpc = "held" THEN <<mop.op, mop.a, mop.b>> ELSE <<>>]
    /\ UNCHANGED <<geomVars, canvasVars>>

\* let value: Point3f = t.into()
IntoPoint3f ==
    \E t \in Arg("Vector4f", Tuples) :
        Apply("Point3f_from", V("Vector4f", t), Nothing, Point3f_from(t), "Point3f")

\* let value: Vector3f = t.into()
IntoVector3f ==
    \E t \in Arg("Vector4f", Tuples) :
        Apply("Vector3f_from", V("Vector4f", t), Nothing, Vector3f_from(t), "Vector3f")

\* a + b on raw tuples
Vector4fAdd ==
    \E a \in Arg("Vector4f", Tuples) : \E b \in {t \in Tuples : AddExact4(a, t)} :
        Apply("Vector4f_add", V("Vector4f", a), V("Vector4f", b),
              Ok(Vector4f_add(a, b)), "Vector4f")

\* p + v
PointAddVector ==
    \E a \in Arg("Point3f", Point3fs) : \E b \in {t \in Vector3fs : AddExact4(a, t)} :
        Apply("Point3f_add_Vector3f", V("Point3f", a), V("Vector3f", b),
              Point3f_add_Vector3f(a, b), "Point3f")

\* v + p
VectorAddPoint ==
    \E a \in Arg("Vector3f", Vector3fs) : \E b \in {t \in Point3fs : AddExact4(a, t)} :
        Apply("Vector3f_add_Point3f", V("Vector3f", a), V("Point3f", b),
              Vector3f_add_Point3f(a, b), "Point3f")

\* v + v
VectorAddVector ==
    \E a \in Arg("Vector3f", Vector3fs) : \E b \in {t \in Vector3fs : AddExact4(a, t)} :
        Apply("Vector3f_add_Vector3f", V("Vector3f", a), V("Vector3f", b),
              Vector3f_add_Vector3f(a, b), "Vector3f")

\* p - p
PointSubPoint ==
    \E a \in Arg("Point3f", Point3fs) : \E b \in {t \in Point3fs : AddExact4(a, Vector4f_neg(t))} :
        Apply("Point3f_sub_Point3f", V("Point3f", a), V("Point3f", b),
              Point3f_sub_Point3f(a, b), "Vector3f")

\* p - v
PointSubVector ==
    \E a \in Arg("Point3f", Point3fs) : \E b \in {t \in Vector3fs : AddExact4(a, Vector4f_neg(t))} :
        Apply("Point3f_sub_Vector3f", V("Point3f", a), V("Vector3f", b),
              Point3f_sub_Vector3f(a, b), "Point3f")

\* v - v
VectorSubVector ==
    \E a \in Arg("Vector3f", Vector3fs) : \E b \in {t \in Vector3fs : AddExact4(a, Vector4f_neg(t))} :
        Apply("Vector3f_sub_Vector3f", V("Vector3f", a), V("Vector3f", b),
              Vector3f_sub_Vector3f(a, b), "Vector3f")

\* -v
VectorNeg ==
    \E a \in Arg("Vector3f", Vector3fs) :
        Apply("Vector3f_neg", V("Vector3f", a), Nothing, Vector3f_neg(a), "Vector3f")

\* v * s
VectorMulScalar ==
    \E a \in Arg("Vector3f", Vector3fs) :
      \E s \in {x \in Scalars : \A i \in 1..4 : MulExact(a[i], x)} :
        Apply("Vector3f_mul", V("Vector3f", a), V("f64", <<s>>),
              Vector3f_mul(a, s), "Vector3f")

\* v / s
VectorDivScalar ==
    \E a \in Arg("Vector3f", Vector3fs) :
      \E s \in {x \in Scalars : x = F(0) \/ \A i \in 1..4 : DivExact(a[i], x)} :
        Apply("Vector3f_div", V("Vector3f", a), V("f64", <<s>>),
              Vector3f_div(a, s), "Vector3f")

\* v.normalize()
Normalize ==
    \E a \in {v \in Arg("Vector3f", Vector3fs) : NormalizeExact(v)} :
        Apply("Vector3f_normalize", V("Vector3f", a), Nothing,
              Vector3f_normalize(a), "Vector3f")

\* a.cross(&b)
Cross ==
    \E a \in Arg("Vector3f", Vector3fs) :
      \E b \in {v \in Vector3fs : CrossExact(a, v)} :
        Apply("Vector3f_cross", V("Vector3f", a), V("Vector3f", b),
              Vector3f_cross(a, b), "Vector3f")

\* m.get(r, c)
MatrixGet ==
    \E m \in Arg("Matrix", Matrices), r \in 0..MaxIndex, c \in 0..MaxIndex :
        Apply("get", V("Matrix", m), V("usize", <<r, c>>), get(m, r, c), "f64")

\* a * b, either operand possibly the matrix just returned
MatrixMul ==
    \E p \in {q \in (Arg("Matrix", Matrices) \X Matrices)
                          \cup (Matrices \X Arg("Matrix", Matrices)) :
                 Len(q[1]) = Len(q[2]) /\ MatMulExact(q[1], q[2])} :
        Apply("BaseMatrix_mul", V("Matrix", p[1]), V("Matrix", p[2]),
              Ok(BaseMatrix_mul(p[1], p[2])), "Matrix")

\* a * b where a product or a sum is rounded.  The rounded cells are not
\* followed: the result is held as <<centre, radius>>, the unrounded
\* product and the bound of its rounding, and stands for every matrix whose
\* cells are within radius of the cells of centre; the f64 product is one
MatrixMulRounded ==
    \E p \in {q \in (Arg("Matrix", Matrices) \X Matrices)
                          \cup (Matrices \X Arg("Matrix", Matrices)) :
                 /\ Len(q[1]) = Len(q[2])
                 /\ AllRational(q[1]) /\ AllRational(q[2])
                 /\ ~MatMulExact(q[1], q[2])} :
        Apply("BaseMatrix_mul", V("Matrix", p[1]), V("Matrix", p[2]),
              Ok(<<BaseMatrix_mul(p[1], p[2]), RoundingBound(p[1], p[2])>>),
              "MatrixWithin")

\* m * v on a raw tuple
MatrixMulVector4f ==
    \E m \in {x \in Arg("Matrix", MatricesOf(4)) : Len(x) = 16} :
      \E v \in {t \in Tuples : MatVecExact(m, t)} :
        Apply("mul_vector4f", V("Matrix", m), V("Vector4f", v),
              Ok(mul_vector4f(m, v)), "Vector4f")

\* m.inverse(): the Option is held as a Matrix, or as None
MatrixInverse ==
    \E m \in {x \in Arg("Matrix", MatricesOf(4)) : Len(x) = 16 /\ InverseExact(x)} :
        LET inv == inverse(m)
        IN  IF inv = <<>>
            THEN Apply("inverse", V("Matrix", m), Nothing, Ok(<<>>), "None")
            ELSE Apply("inverse", V("Matrix", m), Nothing, Ok(inv[1]), "Matrix")

\* the fields of a LightingArgs in declaration order, as the caller's record
\* of the call keeps them, and the LightingArgs of such a record
ArgsFields(args) ==
    <<args.material, args.light, args.point, args.eyev, args.normalv>>

ArgsOf(t) ==
    [material |-> t[1], light |-> t[2], point |-> t[3], eyev |-> t[4], normalv |-> t[5]]

\* lighting(args)
Lighting ==
    /\ mpc = "ready"
    /\ \E args \in {x \in LightingArgs : LightingExact(x)} :
          Apply("lighting", V("LightingArgs", ArgsFields(args)), Nothing,
                lighting(args), "Color")

\* the matrices of test_matrix_submatrix, test_matrix3x3f_minor and
\* test_matrix4x4f_determinant, with the matrices above
DetMatrices ==
    Matrices \cup
    { <<F(1), F(5), F(0), F(-3), F(2), F(7), F(0), F(6), F(-3)>>,
      <<F(3), F(5), F(0), F(2), F(-1), F(-7), F(6), F(-1), F(5)>>,
      << F(-6), F(1), F(1),  F(6),
         F(-8), F(5), F(8),  F(6),
         F(-1), F(0), F(8),  F(2),
         F(-7), F(1), F(-1), F(1) >>,
      << F(-2), F(-8), F(3),  F(5),
         F(-3), F(1),  F(7),  F(3),
         F(1),  F(2),  F(-9), F(6),
         F(-6), F(7),  F(7),  F(-9) >> }

\* m.determinant()
MatrixDeterminant ==
    /\ mpc = "ready"
    /\ \E m \in {x \in DetMatrices : DetExact(x)} :
          Apply("determinant", V("Matrix", m), Nothing,
                Ok(determinant(m)), "f64")

\* m.submatrix(i, j): an f64 for an order-2 matrix
MatrixSubmatrix ==
    /\ mpc = "ready"
    /\ \E m \in DetMatrices, i \in 0..MaxIndex, j \in 0..MaxIndex :
          Apply("submatrix", V("Matrix", m), V("usize", <<i, j>>),
                BaseMatrix_submatrix(m, i, j), IF Len(m) = 4 THEN "f64" ELSE "Matrix")

\* m.minor(i, j) or m.cofactor(i, j)
MatrixMinor ==
    /\ mpc = "ready"
    /\ \E i \in 0..MaxIndex, j \in 0..MaxIndex :
        \E m \in {x \in DetMatrices :
                     IF assert_bounds(x, i, j) THEN DetExact(submatrix(x, i, j)) ELSE TRUE} :
          \E f \in {"minor", "cofactor"} :
              Apply(f, V("Matrix", m), V("usize", <<i, j>>),
                    IF f = "minor" THEN BaseMatrix_minor(m, i, j)
                    ELSE BaseMatrix_cofactor(m, i, j), "f64")

\* the pairs compared: equal values, values one, two and about 2^19 units of
\* 2^-53 apart (900720 * 2^-53 is 1e-10 to seven digits), and values 2^-30,
\* 1e-9, 1e-5 and 1e-4 apart, near 0 and near 1
FloatEqPairs ==
    { <<F(0), F(0)>>, <<F(1), F(1)>>, <<<<3, 10>>, <<3, 10>>>>,
      <<F(0), Tiny(1)>>, <<Tiny(1), F(0)>>, <<F(0), Tiny(2)>>, <<Tiny(3), Tiny(1)>>,
      <<Tiny(2), Tiny(3)>>, <<Tiny(-1), Tiny(1)>>, <<F(0), Tiny(900720)>>,
      <<F(0), <<1, 1073741824>>>>, <<<<1073741825, 1073741824>>, F(1)>>,
      <<F(0), <<1, 1000000000>>>>, <<<<1, 100000>>, F(0)>>,
      <<F(0), <<1, 10000>>>>, <<F(1), <<10001, 10000>>>>, <<F(1), F(2)>> }

\* a.float_eq(&b)
FloatEq ==
    /\ mpc = "ready"
    /\ \E p \in FloatEqPairs :
          Apply("float_eq", V("f64", p[1]), V("f64", p[2]),
                Ok(<<float_eq(p[1], p[2])>>), "bool")

\* the held value goes out of scope
Forget ==
    /\ mpc = "held"
    /\ mpc' = "ready"
    /\ mop' = [op |-> "none", a |-> Nothing, b |-> Nothing, src |-> <<>>]
    /\ held' = Nothing
    /\ UNCHANGED <<geomVars, canvasVars>>

MathNext ==
    \/ IntoPoint3f
    \/ IntoVector3f
    \/ Vector4fAdd
    \/ PointAddVector
    \/ VectorAddPoint
    \/ VectorAddVector
    \/ PointSubPoint
    \/ PointSubVector
    \/ VectorSubVector
    \/ VectorNeg
    \/ VectorMulScalar
    \/ VectorDivScalar
    \/ Normalize
    \/ Cross
    \/ MatrixGet
    \/ MatrixMul
    \/ MatrixMulRounded
    \/ MatrixMulVector4f
    \/ MatrixInverse
    \/ Lighting
    \/ FloatEq
    \/ MatrixDeterminant
    \/ MatrixSubmatrix
    \/ MatrixMinor
    \/ Forget

Init == GeomInit /\ CanvasInit /\ MathInit

\* the four callers, each with the other components at rest
SpecXs == Init /\ [][XsNext]_vars

SpecSphere == Init /\ [][SphereNext]_vars

SpecCanvas == Init /\ [][CanvasNext]_vars

SpecMath == Init /\ [][MathNext]_vars

\* the caller of the geometry operations, building lists by hand and by
\* intersect_sphere
GeomNext == XsNext \/ SphereNext

SpecGeom == Init /\ [][GeomNext]_vars

Next == XsNext \/ SphereNext \/ CanvasNext \/ MathNext

Spec == Init /\ [][Next]_vars

---------------------------------------------------------------------------
(* Properties.                                                             *)

IsSorted(v) == \A i \in 1..(Len(v) - 1) : FLe(v[i].t, v[i + 1].t)

Count(v, e) == Cardinality({i \in 1..Len(v) : v[i] = e})

SameMultiset(v, w) ==
    /\ Len(v) = Len(w)
    /\ \A i \in 1..Len(v) : Count(v, v[i]) = Count(w, v[i])

Comparable(v) == \A i \in 1..Len(v) : ~IsNaN(v[i].t)

TList(v) == [i \in 1..Len(v) |-> v[i].t]

OnSphere1(ts) == [i \in 1..Len(ts) |-> Intersection_new(F(ts[i]), 1)]

\* C1: Intersections::new on comparable t values returns a collection that
\* is ascending by t and holds the same multiset as its input; new_empty is
\* empty; every live Intersections value is sorted.
C1_NewSortsAndKeeps ==
    /\ (arg.op = "new" /\ Comparable(arg.v)) => pc # "panicked"
    /\ (arg.op = "new" /\ pc # "panicked") => IsSorted(xs) /\ SameMultiset(xs, arg.v)
    /\ arg.op = "new_empty" => xs = <<>>
    /\ pc \in {"built", "hit"} => IsSorted(xs)

C1_Witness ==
    /\ pc = "built"
    /\ arg.op = "new"
    /\ arg.v = OnSphere1(<<5, 7, -3, 2>>)
    /\ xs = OnSphere1(<<-3, 2, 5, 7>>)

\* C2: hit() returns an entry of the supplied list with t >= 0 whose t is
\* the smallest such t, whatever the order of the supplied list, and None
\* exactly when the list is empty or every t is negative.
C2_HitIsLowestNonNegative ==
    (pc = "hit" /\ arg.op = "new") =>
        LET v == arg.v
            nonneg == {i \in 1..Len(v) : FGe(v[i].t, F(0))}
        IN  /\ hitres = <<>> <=> (v = <<>> \/ \A i \in 1..Len(v) : FLt(v[i].t, F(0)))
            /\ nonneg # {} => hitres # <<>>
            /\ hitres # <<>> =>
                  /\ \E i \in nonneg : v[i] = hitres[1]
                  /\ \A j \in nonneg : FLe(hitres[1].t, v[j].t)

ZDir == new_vector3_tuple(F(0), F(0), F(1))

\* the last call was intersect_sphere with the ray from (x, y, z) along +z
CalledAlongZ == arg.op = "intersect_sphere" /\ arg.ray.direction = ZDir

\* C3: on the identity-transform sphere a ray along (0,0,1) from (0,0,z0)
\* gives t = [-z0-1, -z0+1]; from (0,1,z0) or (0,-1,z0), the tangents,
\* t = [-z0, -z0]; from (0,y,z0) with |y| > 1 the list is empty.
C3_UnitSphereRoots ==
    (CalledAlongZ /\ transform = identity(4) /\ arg.ray.origin[1] = F(0)) =>
        LET y == arg.ray.origin[2]
            z == arg.ray.origin[3]
        IN  /\ pc \in {"built", "hit"}
            /\ y = F(0) => TList(xs) = <<FSub(FNeg(z), F(1)), FAdd(FNeg(z), F(1))>>
            /\ FAbs(y) = F(1) => TList(xs) = <<FNeg(z), FNeg(z)>>
            /\ FLt(F(1), FAbs(y)) => xs = <<>>
            /\ \A i \in 1..Len(xs) : xs[i].object = 1

C3_Witness ==
    /\ CalledAlongZ
    /\ transform = identity(4)
    /\ arg.ray.origin = new_point3_tuple(F(0), F(0), F(-5))
    /\ TList(xs) = <<F(4), F(6)>>

\* Ray::position(t) as a tuple
PositionAt(ray, t) ==
    [i \in 1..4 |-> FAdd(ray.origin[i], FMul(ray.direction[i], t))]

\* the world-space point lies on the sphere: its object-space image is at
\* distance 1 from the object-space origin
OnSurface(p, tr) ==
    LET q == mul_vector4f(inverse(tr)[1], p)
    IN  FAdd(FAdd(FMul(q[1], q[1]), FMul(q[2], q[2])), FMul(q[3], q[3])) = F(1)

\* C4: the returned t values are parameters of the world-space ray: the
\* ray's position at each t lies on the transformed sphere; the ray from
\* (0,0,-5) along (0,0,1) meets the sphere scaled by 2 at t = [3, 7] and
\* misses the sphere translated to (5,0,0).
C4_WorldSpaceParameters ==
    (arg.op = "intersect_sphere" /\ pc \in {"built", "hit"}) =>
        /\ \A i \in 1..Len(xs) : OnSurface(PositionAt(arg.ray, xs[i].t), transform)
        /\ (arg.ray.direction = ZDir
              /\ arg.ray.origin = new_point3_tuple(F(0), F(0), F(-5))) =>
                /\ transform = scaling(F(2), F(2), F(2)) => TList(xs) = <<F(3), F(7)>>
                /\ transform = translation(F(5), F(0), F(0)) => xs = <<>>

C4_Witness ==
    /\ CalledAlongZ
    /\ pc = "built"
    /\ transform = scaling(F(2), F(2), F(2))
    /\ arg.ray.origin = new_point3_tuple(F(0), F(0), F(-5))
    /\ TList(xs) = <<F(3), F(7)>>

\* C5: with a transform whose inverse() fails, intersect_sphere and
\* normal_at panic, and neither an intersection list nor a normal is held.
C5_SingularTransformPanics ==
    (arg.op \in {"intersect_sphere", "normal_at"} /\ inverse(transform) = <<>>) =>
        /\ pc = "panicked"
        /\ xs = <<>>
        /\ hitres = <<>>
        /\ normal = <<>>

C5_Witness ==
    /\ arg.op = "intersect_sphere"
    /\ inverse(transform) = <<>>
    /\ pc = "panicked"

\* str.split(sep): the pieces between the separators, a trailing separator
\* leaving a last empty piece
RECURSIVE Split(_, _)
Split(str, sep) ==
    LET at == {i \in 1..Len(str) : str[i] = sep}
    IN  IF at = {} THEN <<str>>
        ELSE LET i == CHOOSE k \in at : \A j \in at : k <= j
             IN  <<SubSeq(str, 1, i - 1)>> \o Split(SubSeq(str, i + 1, Len(str)), sep)

Lines(str) == Split(str, NL)

DigitVal(c) == CHOOSE d \in 0..9 : DigitChar(d) = c

RECURSIVE ParseNat(_)
ParseNat(chars) ==
    IF Len(chars) = 1 THEN DigitVal(chars[1])
    ELSE 10 * ParseNat(SubSeq(chars, 1, Len(chars) - 1)) + DigitVal(chars[Len(chars)])

ParseInt(chars) ==
    IF chars[1] = "-" THEN -ParseNat(SubSeq(chars, 2, Len(chars))) ELSE ParseNat(chars)

RECURSIVE Flatten(_)
Flatten(ss) ==
    IF ss = <<>> THEN <<>> ELSE Flatten(SubSeq(ss, 1, Len(ss) - 1)) \o ss[Len(ss)]

\* the numbers of the pixel data: the tokens of the lines after the header
\* and before the last piece
DataTokens(str) ==
    LET ls == Lines(str)
        data == SubSeq(ls, 4, Len(ls) - 1)
        toks == Flatten([i \in 1..Len(data) |-> Split(data[i], " ")])
    IN  [i \in 1..Len(toks) |-> ParseInt(toks[i])]

\* the channel values of the canvas: rows top to bottom, pixels left to
\* right, r, g, b
Channels(px) == Flatten(Flatten(px))

\* C6: no line of the output of canvas_to_ppm is longer than 70 characters.
C6_LinesAtMost70 ==
    ppm # <<>> => \A i \in 1..Len(Lines(ppm[1])) : Len(Lines(ppm[1])[i]) <= 70

C6_Witness ==
    /\ ppm # <<>>
    /\ Canvas_w(canvas) = 6
    /\ Len(Lines(ppm[1])) = 6
    /\ Len(Lines(ppm[1])[4]) = 67

\* C7: the output begins with the lines P3, "<w> <h>" of the width and
\* height the canvas was created with, and 255.
C7_HeaderOfCreatedSize ==
    ppm # <<>> =>
        /\ Len(Lines(ppm[1])) >= 4
        /\ Lines(ppm[1])[1] = <<"P", "3">>
        /\ Lines(ppm[1])[2] = to_string(made[1]) \o <<" ">> \o to_string(made[2])
        /\ Lines(ppm[1])[3] = <<"2", "5", "5">>

\* C8: the output ends with a newline and has no empty line before its end.
C8_EndsWithNewlineNoEmptyLine ==
    ppm # <<>> =>
        LET str == ppm[1]
            ls == Lines(str)
        IN  /\ str # <<>>
            /\ str[Len(str)] = NL
            /\ ls[Len(ls)] = <<>>
            /\ \A i \in 1..(Len(ls) - 1) : ls[i] # <<>>

C8_Witness ==
    /\ ppm # <<>>
    /\ made = <<0, 2>>
    /\ Len(Lines(ppm[1])) = 4
    /\ ppm[1][Len(ppm[1])] = NL

\* the integer k is what channel value v is emitted as when the fraction of
\* v * 255 is dropped (and a NaN is emitted as 0)
Truncated(v, k) ==
    IF IsNaN(v) \/ FLt(v, F(0)) THEN k = 0
    ELSE IF FLt(F(1), v) THEN k = 255
    ELSE k * v[2] <= 255 * v[1] /\ 255 * v[1] < (k + 1) * v[2]

\* the integer k is a nearest integer to v * 255 (a tie taken either way)
Nearest(v, k) ==
    IF IsNaN(v) \/ FLt(v, F(0)) THEN k = 0
    ELSE IF FLt(F(1), v) THEN k = 255
    ELSE 2 * Abs(k * v[2] - 255 * v[1]) <= v[2]

\* C9, as amended: each channel value v is emitted as 0 when v < 0, 255
\* when v > 1, and otherwise as v * 255 with its fraction dropped (0 for a
\* NaN); every emitted value is an integer in 0..255.
C9_ChannelsTruncated ==
    ppm # <<>> =>
        LET toks == DataTokens(ppm[1])
            vs == Channels(canvas)
        IN  /\ Len(toks) = Len(vs)
            /\ \A i \in 1..Len(toks) : toks[i] \in 0..255 /\ Truncated(vs[i], toks[i])

C9_Witness ==
    /\ ppm # <<>>
    /\ made = <<1, 1>>
    /\ canvas[1][1] = Color_new(<<-1, 2>>, <<1, 4>>, NaN)
    /\ DataTokens(ppm[1]) = <<0, 63, 0>>

\* C9 as claimed: otherwise round(v * 255), the nearest integer.
C9_ChannelsRounded ==
    ppm # <<>> =>
        LET toks == DataTokens(ppm[1])
            vs == Channels(canvas)
        IN  /\ Len(toks) = Len(vs)
            /\ \A i \in 1..Len(toks) : toks[i] \in 0..255 /\ Nearest(vs[i], toks[i])

\* C10: right after Canvas::new(w, h), w() is w, h() is h, and px(x, y) is
\* black for every x < w and y < h.
C10_NewCanvasSizeAndBlack ==
    cpc = "new" =>
        /\ Canvas_w(canvas) = made[1]
        /\ Canvas_h(canvas) = made[2]
        /\ \A x \in 0..(made[1] - 1), y \in 0..(made[2] - 1) :
              Canvas_px(canvas, x, y) = Ok(BLACK)
        /\ pxres # <<>> => pxres[3] = BLACK

---------------------------------------------------------------------------
(* Canvas pixels.                                                          *)

\* the canvas has the rows and columns it was created with, and every pixel
\* holds the colour the history gives it
AgreesWithHistory ==
    /\ Len(canvas) = made[2]
    /\ \A y \in 1..Len(canvas) : Len(canvas[y]) = made[1]
    /\ \A y \in 1..Len(canvas) : \A x \in 1..Len(canvas[y]) :
          Canvas_px(canvas, x - 1, y - 1) = Ok(lastw[y][x])

\* C11: after any sequence of in-range write_px calls, px(x, y) is the
\* colour of the most recent write_px to (x, y), or black if (x, y) was
\* never written; a write changes only its pixel and leaves every other
\* pixel, the width and the height as they were.
C11_PxIsLastWrite ==
    cpc \in {"new", "written"} =>
        /\ AgreesWithHistory
        /\ pxres # <<>> => pxres[3] = lastw[pxres[2] + 1][pxres[1] + 1]

C11_Witness ==
    /\ cop = <<"px", 0, 0>>
    /\ made = <<3, 1>>
    /\ lastw[1] = <<Color_new(<<3, 2>>, <<1, 2>>, F(1)), BLACK, Color_new(<<-1, 2>>, <<1, 4>>, NaN)>>
    /\ pxres = <<0, 0, Color_new(<<3, 2>>, <<1, 2>>, F(1))>>

InRange(x, y) == x < made[1] /\ y < made[2]

\* C12: px(x, y) and write_px(x, y, c) panic whenever x >= width or
\* y >= height, canvases of zero width or height included; a write_px that
\* panicked has modified no pixel.
C12_OutOfRangeAborts ==
    /\ cop[1] \in {"px", "write_px"} /\ ~InRange(cop[2], cop[3]) => cpc = "panicked"
    /\ cpc = "panicked" => AgreesWithHistory

C12_Witness ==
    /\ cpc = "panicked"
    /\ cop = <<"write_px", 0, 0>>
    /\ made = <<0, 2>>
    /\ canvas = <<<<>>, <<>>>>

---------------------------------------------------------------------------
(* Points and vectors.                                                     *)

\* the operations of the combination table
KindOps ==
    {"Point3f_add_Vector3f", "Vector3f_add_Point3f", "Vector3f_add_Vector3f",
     "Point3f_sub_Point3f", "Point3f_sub_Vector3f", "Vector3f_sub_Vector3f",
     "Vector3f_neg", "Vector3f_mul", "Vector3f_div", "Vector3f_cross"}

AllFinite(t) == \A i \in 1..Len(t) : IsFinite(t[i])

\* the last call was an operation of the table on finite operands, a
\* division by zero excepted
TableCallOnFinite ==
    /\ mop.op \in KindOps
    /\ AllFinite(mop.a.t) /\ AllFinite(mop.b.t)
    /\ ~(mop.op = "Vector3f_div" /\ mop.b.t = <<F(0)>>)

\* C13: every Point3f has w = 1 and every Vector3f has w = 0 (as the
\* conversions test it, to the float tolerance), and every operation of the
\* combination table on finite operands returns a value of its kind: none
\* trips the kind assertion of the conversions.
C13_KindsPreserved ==
    /\ held.kind = "Point3f" => is_point3_tuple(held.t)
    /\ held.kind = "Vector3f" => is_vector3_tuple(held.t)
    /\ TableCallOnFinite => mpc # "panicked"

\* w is within f64::EPSILON of k, for k = 0 or 1 and the values of this
\* representation (1 - 2^-53 is not one of them)
Near(w, k) == w = k \/ (k = F(0) /\ IsTiny(w) /\ Abs(w[1]) = 1)

\* C14: the conversion Vector4f -> Point3f panics unless w is 1 within the
\* float tolerance and Vector4f -> Vector3f panics unless w is 0 within it;
\* no tuple converts to both, and a tuple with any other w (2, or the w = 2
\* sum of two point tuples) converts to neither.
C14_WrongKindFails ==
    mop.op \in {"Point3f_from", "Vector3f_from"} =>
        LET t == mop.a.t
        IN  /\ mop.op = "Point3f_from" => (mpc = "panicked" <=> ~Near(t[4], F(1)))
            /\ mop.op = "Vector3f_from" => (mpc = "panicked" <=> ~Near(t[4], F(0)))
            /\ mpc = "held" => held.t = t
            /\ Point3f_from(t).panic \/ Vector3f_from(t).panic
            /\ ~Near(t[4], F(1)) /\ ~Near(t[4], F(0)) =>
                   Point3f_from(t).panic /\ Vector3f_from(t).panic

C14_Witness ==
    /\ mpc = "panicked"
    /\ mop.op = "Vector3f_from"
    /\ mop.src # <<>>
    /\ mop.src[1] = "Vector4f_add"
    /\ mop.src[2].t[4] = F(1) /\ mop.src[3].t[4] = F(1)
    /\ mop.a.t[4] = F(2)

\* C15: normalizing a Vector3f of length zero, and dividing a Vector3f by
\* the scalar 0, panics: neither call returns a Vector3f.
C15_ZeroLengthAborts ==
    /\ mop.op = "Vector3f_normalize" /\ Vector4f_magnitude(mop.a.t) = F(0) =>
           mpc = "panicked"
    /\ mop.op = "Vector3f_div" /\ mop.b.t = <<F(0)>> => mpc = "panicked"

C15_Witness ==
    /\ mpc = "panicked"
    /\ mop.op = "Vector3f_normalize"
    /\ mop.a.t = new_vector3_tuple(F(0), F(0), F(0))
    /\ mop.src # <<>>
    /\ mop.src[1] = "Vector3f_sub_Vector3f"
    /\ mop.src[2].t = mop.src[3].t
    /\ mop.src[2].t = new_vector3_tuple(F(3), F(4), F(0))

\* the last two calls were q = p + v and then q - v, with the same v
AddThenSub ==
    /\ mop.op = "Point3f_sub_Vector3f"
    /\ mop.src # <<>>
    /\ mop.src[1] = "Point3f_add_Vector3f"
    /\ mop.b = mop.src[3]

\* a + b is computed without rounding
Unrounded(a, b) ==
    \/ Dyadic(a) /\ Dyadic(b)
    \/ a = F(0) \/ b = F(0)
    \/ a[2] < 0 /\ a[2] = b[2]

IntegerValued(t) == \A i \in 1..Len(t) : t[i][2] = 1 \/ IsHuge(t[i])

\* |a - b| < 1e-5
Within1e5(a, b) == FLt(FAbs(FSub(a, b)), <<1, 100000>>)

\* C16 (as amended): for a Point3f p and a Vector3f v, p + v and
\* (p + v) - v are both points, and (p + v) - v equals p whenever every
\* component sum p_i + v_i is computed without rounding.
C16_AddThenSubRestoresUnrounded ==
    AddThenSub =>
        LET p == mop.src[2].t
            v == mop.src[3].t
        IN  /\ mop.a.kind = "Point3f" /\ is_point3_tuple(mop.a.t)
            /\ mpc = "held" /\ held.kind = "Point3f" /\ is_point3_tuple(held.t)
            /\ (\A i \in 1..4 : Unrounded(p[i], v[i])) => held.t = p

C16_Witness ==
    /\ AddThenSub
    /\ mop.src[2].t = new_point3_tuple(<<1, 2>>, F(1), F(-1))
    /\ mop.src[3].t = new_vector3_tuple(F(-2), <<3, 2>>, F(1))
    /\ mop.a.t = new_point3_tuple(<<-3, 2>>, <<5, 2>>, F(0))
    /\ held = V("Point3f", new_point3_tuple(<<1, 2>>, F(1), F(-1)))

\* C16 (as stated): for every Point3f p and Vector3f v, (p + v) - v equals p,
\* exactly when the components are integer-valued and within 1e-5 in
\* general, and p + v and the result are both points.
C16_AddThenSubRestores ==
    AddThenSub =>
        LET p == mop.src[2].t
            v == mop.src[3].t
        IN  /\ mop.a.kind = "Point3f" /\ is_point3_tuple(mop.a.t)
            /\ mpc = "held" /\ held.kind = "Point3f" /\ is_point3_tuple(held.t)
            /\ IntegerValued(p) /\ IntegerValued(v) => held.t = p
            /\ \A i \in 1..4 : Within1e5(held.t[i], p[i])

\* a * b - c * d over the rationals, from the numerators and denominators
RatMulSub(a, b, c, d) ==
    Norm(a[1] * b[1] * c[2] * d[2] - c[1] * d[1] * a[2] * b[2],
         a[2] * b[2] * c[2] * d[2])

\* C17: a.cross(b) is the vector
\* (ay*bz - az*by, az*bx - ax*bz, ax*by - ay*bx) with w = 0, and it equals
\* -(b.cross(a)).
C17_CrossFormulaAnticommutes ==
    mop.op = "Vector3f_cross" =>
        LET a == mop.a.t
            b == mop.b.t
        IN  /\ mpc = "held" /\ held.kind = "Vector3f"
            /\ held.t = << RatMulSub(a[2], b[3], a[3], b[2]),
                           RatMulSub(a[3], b[1], a[1], b[3]),
                           RatMulSub(a[1], b[2], a[2], b[1]),
                           F(0) >>
            /\ held.t = Vector3f_neg(Vector3f_cross(b, a).val).val

C17_Witness ==
    /\ mop.op = "Vector3f_cross"
    /\ mop.a.t = new_vector3_tuple(F(1), F(2), F(3))
    /\ mop.b.t = new_vector3_tuple(F(2), F(3), F(4))
    /\ held = V("Vector3f", new_vector3_tuple(F(-1), F(2), F(-1)))

---------------------------------------------------------------------------
(* Matrices.                                                               *)

Order(m) == CHOOSE o \in 2..4 : o * o = Len(m)

\* C18: on a matrix of order O in {2, 3, 4}, get(r, c) returns the element
\* at flat row-major index r * O + c when r < O and c < O and panics when
\* r >= O or c >= O; get(0, O) panics, it does not return the first element
\* of row 1.
C18_GetBoundsChecked ==
    mop.op = "get" =>
        LET m == mop.a.t
            r == mop.b.t[1]
            c == mop.b.t[2]
        IN  IF r < Order(m) /\ c < Order(m)
            THEN mpc = "held" /\ held = V("f64", m[r * Order(m) + c + 1])
            ELSE mpc = "panicked"

C18_Witness ==
    /\ mpc = "panicked"
    /\ mop.op = "get"
    /\ mop.a.t = <<F(1), F(2), F(3), F(4)>>
    /\ mop.b.t = <<0, 2>>

\* C19 (as amended): for a square matrix M of order 2, 3 or 4 with finite
\* elements, M * identity() = M and identity() * M = M; for a 4-tuple v
\* with finite components, Matrix4x4f::identity() * v = v.
C19_IdentityIsNeutralOnFinite ==
    /\ mop.op = "BaseMatrix_mul" /\ AllFinite(mop.a.t) /\ AllFinite(mop.b.t) =>
          /\ mpc = "held"
          /\ mop.b.t = identity(Order(mop.a.t)) => held = V("Matrix", mop.a.t)
          /\ mop.a.t = identity(Order(mop.b.t)) => held = V("Matrix", mop.b.t)
    /\ mop.op = "mul_vector4f" /\ mop.a.t = identity(4) /\ AllFinite(mop.b.t) =>
          mpc = "held" /\ held = V("Vector4f", mop.b.t)

\* C19 (as stated): for every square matrix M of order 2, 3 or 4,
\* M * identity() = M and identity() * M = M; for every 4-tuple v,
\* Matrix4x4f::identity() * v = v.
C19_IdentityIsNeutral ==
    /\ mop.op = "BaseMatrix_mul" =>
          /\ mpc = "held"
          /\ mop.b.t = identity(Order(mop.a.t)) => held = V("Matrix", mop.a.t)
          /\ mop.a.t = identity(Order(mop.b.t)) => held = V("Matrix", mop.b.t)
    /\ mop.op = "mul_vector4f" /\ mop.a.t = identity(4) =>
          mpc = "held" /\ held = V("Vector4f", mop.b.t)

C19_Witness ==
    /\ mop.op = "BaseMatrix_mul"
    /\ mop.a.t = identity(3)
    /\ mop.b.t = <<F(1), F(2), F(6), F(-5), F(8), F(-4), F(2), F(6), F(4)>>
    /\ held = V("Matrix", <<F(1), F(2), F(6), F(-5), F(8), F(-4), F(2), F(6), F(4)>>)

\* |a - b| < 1e-4
Within1e4(a, b) == FLt(FAbs(FSub(a, b)), <<1, 10000>>)

\* adjugate(i, j) = cofactor(j, i)
adjugate(m) ==
    ToVec([k \in 1..16 |-> cofactor(m, (k - 1) % 4, (k - 1) \div 4)])

\* every value within radius of centre is within 1e-4 of x: the radius is
\* below 2^23 * 2^-53 and the centre within 1e-4 / 2 of x
EnclosedWithin1e4(centre, radius, x) ==
    /\ radius = F(0) \/ IsTiny(radius)
    /\ radius[1] < 2^23
    /\ IsRational(centre)
    /\ 20000 * FAbs(FSub(centre, x))[1] < FSub(centre, x)[2]

\* M * M.inverse() was computed: the last two calls were M.inverse(),
\* returning Some(b), and M * b
ProductWithInverse ==
    /\ mop.op = "BaseMatrix_mul"
    /\ mop.src # <<>>
    /\ mop.src[1] = "inverse"
    /\ mop.a = mop.src[2]
    /\ inverse(mop.a.t) = <<mop.b.t>>

\* the product held is the identity matrix within 1e-4
HeldIsIdentityWithin1e4 ==
    /\ mpc = "held"
    /\ IF held.kind = "Matrix"
       THEN \A k \in 1..16 : Within1e4(held.t[k], identity(4)[k])
       ELSE /\ held.kind = "MatrixWithin"
            /\ \A k \in 1..16 :
                  EnclosedWithin1e4(held.t[1][k], held.t[2], identity(4)[k])

\* M times its adjugate, computed without rounding, is determinant(M) times
\* the identity
AdjugateProduct(m) ==
    /\ MatMulExact(m, adjugate(m))
    /\ BaseMatrix_mul(m, adjugate(m))
          = ToVec([k \in 1..16 |-> FMul(determinant(m), identity(4)[k])])

---------------------------------------------------------------------------
(* Lighting.                                                               *)

White == Color_new(F(1), F(1), F(1))

\* the arguments of the literal check, with the light at (0, 0, z)
LiteralArgs(z) ==
    [material |-> Material_default,
     light |-> PointLight_new(new_point3_tuple(F(0), F(0), F(z)), White),
     point |-> new_point3_tuple(F(0), F(0), F(0)),
     eyev |-> new_vector3_tuple(F(0), F(0), F(-1)),
     normalv |-> new_vector3_tuple(F(0), F(0), F(-1))]

\* C22: lighting with the default material, point (0,0,0), normal (0,0,-1),
\* eye (0,0,-1) and a white light returns (1.9, 1.9, 1.9) for the light at
\* (0,0,-10) and (0.1, 0.1, 0.1), the ambient term alone, for the light at
\* (0,0,10); in general the result is ambient + diffuse + specular channel
\* by channel, not clamped.
C22_PhongLiteral ==
    mop.op = "lighting" =>
        /\ ArgsOf(mop.a.t) = LiteralArgs(-10) =>
              held = V("Color", Color_new(<<19, 10>>, <<19, 10>>, <<19, 10>>))
        /\ ArgsOf(mop.a.t) = LiteralArgs(10) =>
              /\ held = V("Color", Color_new(<<1, 10>>, <<1, 10>>, <<1, 10>>))
              /\ held.t = lighting_terms(ArgsOf(mop.a.t)).val.ambient
        /\ mpc = "held" =>
              LET t == lighting_terms(ArgsOf(mop.a.t)).val
              IN  \A i \in 1..3 :
                    held.t[i] = FAdd(FAdd(t.ambient[i], t.diffuse[i]), t.specular[i])

C22_Witness ==
    /\ mop.op = "lighting"
    /\ ArgsOf(mop.a.t) = LiteralArgs(-10)
    /\ mpc = "held"
    /\ \A i \in 1..3 : FLt(F(1), held.t[i])

\* C27 (amended): in lighting, whenever lightDotNormal = lightVec . normal is
\* < 0 the diffuse and the specular term are black and the result is the
\* ambient term alone, for every eye vector; when lightDotNormal >= 0,
\* exactly 0 included, the specular term is black whenever reflectDotEye <= 0
\* and the result is then ambient + diffuse; at exactly 0 the diffuse term is
\* black.
C27_NoLightFromBehind ==
    mop.op = "lighting" /\ mpc = "held" =>
        LET args == ArgsOf(mop.a.t)
            lightv == light_vector(args).val
            light_dot_normal == Vector3f_dot(lightv, args.normalv)
            toward == Vector3f_dot(Point3f_sub_Point3f(args.light.position,
                                                       args.point).val, args.normalv)
            effective_color == Color_mul(args.material.color, args.light.intensity)
            ambient == Color_mul_f64(effective_color, args.material.ambient)
            diffuse == Color_mul_f64(Color_mul_f64(effective_color, args.material.diffuse),
                                     light_dot_normal)
            t == lighting_terms(args).val
        IN  /\ FLt(toward, F(0)) =>
                  /\ t.diffuse = BLACK /\ t.specular = BLACK
                  /\ held.t = ambient
            /\ toward = F(0) => t.diffuse = BLACK
            /\ /\ FLe(F(0), toward)
               /\ FLe(reflect_dot_eye_of(args, lightv).val, F(0))
               => /\ t.specular = BLACK
                  /\ held.t = Color_add(ambient, diffuse)

\* a light behind the surface, seen by an eye that is not on the normal
C27_Witness ==
    /\ mop.op = "lighting" /\ mpc = "held"
    /\ LET args == ArgsOf(mop.a.t)
       IN  /\ FLt(Vector3f_dot(light_vector(args).val, args.normalv), F(0))
           /\ args.eyev # args.normalv
           /\ args.material # Material_default
           /\ held.t = Color_new(<<1, 4>>, <<1, 4>>, F(0))

\* C27 as stated: in lighting, whenever lightDotNormal = lightVec . normal is <= 0,
\* exactly 0 included, the diffuse and the specular term are black and the
\* result is the ambient term alone, for every eye vector; when
\* lightDotNormal > 0 the specular term is black whenever reflectDotEye <= 0.
C27_NoLightFromBehindOrGrazing ==
    mop.op = "lighting" /\ mpc = "held" =>
        LET args == ArgsOf(mop.a.t)
            lightv == light_vector(args).val
            light_dot_normal == Vector3f_dot(lightv, args.normalv)
            ambient == Color_mul_f64(Color_mul(args.material.color, args.light.intensity),
                                     args.material.ambient)
            t == lighting_terms(args).val
        IN  /\ FLe(light_dot_normal, F(0)) =>
                  /\ t.diffuse = BLACK /\ t.specular = BLACK
                  /\ held.t = ambient
            /\ /\ FLt(F(0), light_dot_normal)
               /\ FLe(reflect_dot_eye_of(args, lightv).val, F(0))
               => t.specular = BLACK

---------------------------------------------------------------------------
(* The tolerance of float_eq.                                              *)

\* |a - b| of the held comparison
FloatEqDistance == FAbs(FSub(mop.a.t, mop.b.t))

\* C23 (amended): float_eq on two finite f64 values returns equal exactly
\* when |a - b| is below f64::EPSILON = 2^-52, about 2.2e-16: values 2^-53
\* apart compare equal, values 2^-52, 1e-10, 1e-9 or 1e-4 apart do not.
C23_EpsilonTolerance ==
    mop.op = "float_eq" =>
        /\ held.t[1] = FLt(FloatEqDistance, Tiny(2))
        /\ FloatEqDistance \in {Tiny(2), Tiny(900720), <<1, 1000000000>>, <<1, 10000>>}
              => held.t = <<FALSE>>
        /\ FloatEqDistance \in {F(0), Tiny(1)} => held.t = <<TRUE>>

\* values about 1e-10 apart were compared
C23_Witness ==
    /\ mop.op = "float_eq" /\ mpc = "held"
    /\ FloatEqDistance = Tiny(900720)
    /\ held = V("bool", <<FALSE>>)

\* C23 as stated: float_eq returns equal exactly when |a - b| is below a
\* fixed tolerance between 1e-9 and 1e-5, so that values differing by 1e-10
\* compare equal and values differing by 1e-4 do not.
C23_ToleranceBand ==
    mop.op = "float_eq" =>
        /\ IsTiny(FloatEqDistance) \/ FLt(FloatEqDistance, <<1, 1000000000>>)
              => held.t = <<TRUE>>
        /\ IsRational(FloatEqDistance) /\ FGe(FloatEqDistance, <<1, 100000>>)
              => held.t = <<FALSE>>

---------------------------------------------------------------------------
(* The shape of the result of intersect_sphere.                            *)

\* the direction of the ray of the last call is not the zero vector
NonZeroDirection == \E i \in 1..3 : arg.ray.direction[i] # F(0)

\* the discriminant of the ray of the last call in the object space of the
\* sphere
CallDiscriminant ==
    discriminant_of(Ray_transform(arg.ray, inverse(transform)[1]).val).disc

\* C24: for every ray with a non-zero direction and every sphere with an
\* invertible transform, intersect_sphere returns either no intersection,
\* exactly when the discriminant is negative, or exactly two intersections
\* t1 <= t2, never one; every intersection refers to the sphere passed.
C24_NoneOrTwoOrdered ==
    /\ arg.op = "intersect_sphere"
    /\ NonZeroDirection
    /\ inverse(transform) # <<>>
    => /\ pc \in {"built", "hit"}
       /\ Len(xs) \in {0, 2}
       /\ Len(xs) = 0 <=> FLt(CallDiscriminant, F(0))
       /\ Len(xs) = 2 => FLe(xs[1].t, xs[2].t)
       /\ \A i \in 1..Len(xs) : xs[i].object = 1

\* a tangent ray under a transform that is not the identity: two equal roots
C24_Witness ==
    /\ arg.op = "intersect_sphere"
    /\ NonZeroDirection
    /\ transform = scaling(F(2), F(2), F(2))
    /\ CallDiscriminant = F(0)
    /\ pc = "built"
    /\ Len(xs) = 2 /\ xs[1].t = xs[2].t

---------------------------------------------------------------------------
(* Determinants, submatrices, minors and cofactors.                        *)

\* the permutations of 1..n and their signs, by counting inversions
Perms(n) == {p \in [1..n -> 1..n] : \A a, b \in 1..n : p[a] = p[b] => a = b}

Inversions(p) == Cardinality({ab \in (DOMAIN p) \X (DOMAIN p) : ab[1] < ab[2] /\ p[ab[1]] > p[ab[2]]})

RECURSIVE ProductAlong(_, _, _)
ProductAlong(m, p, r) ==
    IF r = 0 THEN F(1)
    ELSE FMul(ProductAlong(m, p, r - 1), m[(r - 1) * Len(p) + p[r]])

RECURSIVE LeibnizSum(_, _)
LeibnizSum(m, ps) ==
    IF ps = {} THEN F(0)
    ELSE LET p == CHOOSE q \in ps : TRUE
             term == ProductAlong(m, p, Len(p))
         IN  FAdd(LeibnizSum(m, ps \ {p}),
                  IF Inversions(p) % 2 = 0 THEN term ELSE FNeg(term))

\* the determinant as the signed sum over the permutations; an f64 is its
\* own determinant
Leibniz(m) == IF Len(m) = 2 THEN m ELSE LeibnizSum(m, Perms(MAT_ORDER(m)))

\* C25: determinant(), computed by cofactor expansion along row 0, is the
\* standard determinant for the orders 2, 3 and 4: a*d - b*c for
\* [[a, b], [c, d]], and the Leibniz sum for the larger orders.
C25_DeterminantIsLeibniz ==
    mop.op = "determinant" =>
        LET m == mop.a.t
        IN  /\ held.t = Leibniz(m)
            /\ Len(m) = 4 => held.t = FSub(FMul(m[1], m[4]), FMul(m[2], m[3]))
            /\ m = << F(-2), F(-8), F(3), F(5), F(-3), F(1), F(7), F(3),
                      F(1), F(2), F(-9), F(6), F(-6), F(7), F(7), F(-9) >>
                  => held.t = F(-4071)

\* the determinant of the matrix of bin/ch03_matrix was taken
C25_Witness ==
    /\ mop.op = "determinant" /\ mpc = "held"
    /\ mop.a.t = ch03_m
    /\ held.t = Leibniz(ch03_m)
    /\ held.t # F(0)

\* the cells of m from the k-th on that lie neither in row i nor in column
\* j, in their order
RECURSIVE CellsOutside(_, _, _, _)
CellsOutside(m, k, i, j) ==
    IF k > Len(m) THEN <<>>
    ELSE LET o == MAT_ORDER(m)
             rest == CellsOutside(m, k + 1, i, j)
         IN  IF (k - 1) \div o = i \/ (k - 1) % o = j THEN rest ELSE <<m[k]>> \o rest

\* m without row i and column j; a single cell is an f64
Deleted(m, i, j) ==
    IF Len(m) = 4 THEN CellsOutside(m, 1, i, j)[1] ELSE CellsOutside(m, 1, i, j)

InsideMatrix(m, ij) == ij[1] < MAT_ORDER(m) /\ ij[2] < MAT_ORDER(m)

Minor325 == <<F(3), F(5), F(0), F(2), F(-1), F(-7), F(6), F(-1), F(5)>>

\* C26: submatrix(i, j) of an order-n matrix is the order-(n-1) matrix with
\* row i and column j deleted, the remaining rows and columns in their
\* order; minor(i, j) is the determinant of that submatrix, and
\* cofactor(i, j) is the minor when i + j is even and its negation when
\* i + j is odd.
C26_SubmatrixMinorCofactor ==
    mop.op \in {"submatrix", "minor", "cofactor"} /\ InsideMatrix(mop.a.t, mop.b.t) =>
        LET m == mop.a.t
            i == mop.b.t[1]
            j == mop.b.t[2]
        IN  /\ mpc = "held"
            /\ mop.op = "submatrix" =>
                  /\ held.t = Deleted(m, i, j)
                  /\ Len(m) > 4 => Len(held.t) = (MAT_ORDER(m) - 1) * (MAT_ORDER(m) - 1)
            /\ mop.op = "minor" => held.t = Leibniz(Deleted(m, i, j))
            /\ mop.op = "cofactor" =>
                  held.t = IF (i + j) % 2 = 0 THEN Leibniz(Deleted(m, i, j))
                           ELSE FNeg(Leibniz(Deleted(m, i, j)))
            /\ m = Minor325 /\ i = 1 /\ j = 0 =>
                  /\ mop.op = "minor" => held.t = F(25)
                  /\ mop.op = "cofactor" => held.t = F(-25)

\* the cofactor (1, 0) of the matrix of test_matrix3x3f_cofactor was taken
C26_Witness ==
    /\ mop.op = "cofactor" /\ mpc = "held"
    /\ mop.a.t = Minor325
    /\ mop.b.t = <<1, 0>>
    /\ held.t = F(-25)
    /\ Deleted(Minor325, 1, 0) = <<F(5), F(0), F(-1), F(5)>>

---------------------------------------------------------------------------
(* The pixel data of canvas_to_ppm: rows and line breaks.                  *)

\* the lines after the header and before the last piece, and their tokens
DataLines(str) == SubSeq(Lines(str), 4, Len(Lines(str)) - 1)

LineTokens(str) == [i \in 1..Len(DataLines(str)) |-> Split(DataLines(str)[i], " ")]

\* the number of tokens on the first k data lines
TokensThrough(str, k) == Len(Flatten(SubSeq(LineTokens(str), 1, k)))

\* C28: after the three header lines canvas_to_ppm emits the rows in the
\* order y = 0..h-1; the tokens of row y are the 3*w integers r, g, b of the
\* pixels x = 0..w-1 in that order, separated by single spaces or line
\* breaks; every row starts on a new line, so that no line holds values of
\* two rows.
C28_RowsInOrderOnOwnLines ==
    ppm # <<>> =>
        LET str == ppm[1]
            w == Canvas_w(canvas)
            h == Canvas_h(canvas)
            toks == Flatten(LineTokens(str))
        IN  /\ Len(toks) = 3 * w * h
            /\ \A i \in 1..Len(toks) : toks[i] # <<>>
            /\ \A y \in 0..(h - 1), x \in 0..(w - 1), ch \in 1..3 :
                  Truncated(canvas[y + 1][x + 1][ch],
                            ParseInt(toks[3 * w * y + 3 * x + ch]))
            /\ \A y \in 1..h :
                  \E k \in 0..Len(DataLines(str)) : TokensThrough(str, k) = 3 * w * y

\* two rows that differ, each on its own line
C28_Witness ==
    /\ ppm # <<>>
    /\ Canvas_w(canvas) = 3 /\ Canvas_h(canvas) = 2
    /\ canvas[1][1] # canvas[2][1]
    /\ canvas[1][1] # BLACK
    /\ Len(DataLines(ppm[1])) = 2
    /\ TokensThrough(ppm[1], 1) = 9

\* C29: wrapping is greedy: within a row a line break stands before a
\* value only when the line with a space and that value appended would be
\* longer than 70 characters; a line of exactly 70 characters is allowed; no
\* line starts or ends with a space; no value is lost or duplicated.
C29_GreedyWrap ==
    ppm # <<>> =>
        LET str == ppm[1]
            w == Canvas_w(canvas)
            data == DataLines(str)
            toks == Flatten(LineTokens(str))
        IN  /\ \A k \in 1..Len(data) :
                  /\ Len(data[k]) <= 70
                  /\ data[k][1] # " " /\ data[k][Len(data[k])] # " "
            /\ \A k \in 1..(Len(data) - 1) :
                  TokensThrough(str, k) % (3 * w) # 0 =>
                      Len(data[k]) + 1 + Len(LineTokens(str)[k + 1][1]) > 70
            /\ [i \in 1..Len(toks) |-> ParseInt(toks[i])]
                   = Flatten([y \in 1..Len(canvas) |-> row_values(canvas[y])])

\* a line of exactly 70 characters, the row continuing on the next line
C29_Witness ==
    /\ ppm # <<>>
    /\ Len(DataLines(ppm[1])) = 2
    /\ Len(DataLines(ppm[1])[1]) = 70
    /\ Canvas_h(canvas) = 1
    /\ TokensThrough(ppm[1], 2) = 3 * Canvas_w(canvas)

---------------------------------------------------------------------------
(* NaN and the intersection list.                                          *)

ZeroDirection == \A i \in 1..3 : arg.ray.direction[i] = F(0)

\* C30: for a ray whose direction has zero length intersect_sphere does
\* not return a list, since the roots are NaN and sorting them in
\* Intersections::new aborts; hence no Intersections value ever holds a NaN
\* t, and hit() never compares against NaN.
C30_NaNNeverListed ==
    /\ arg.op = "intersect_sphere" /\ pc \in {"built", "hit", "panicked"} /\ ZeroDirection
          => pc = "panicked"
    /\ pc \in {"built", "hit"} => \A i \in 1..Len(xs) : ~IsNaN(xs[i].t)

\* the half of C30 about intersect_sphere alone
C30_ZeroDirectionAborts ==
    arg.op = "intersect_sphere" /\ pc \in {"built", "hit", "panicked"} /\ ZeroDirection
        => pc = "panicked" /\ xs = <<>>

====
